---- MODULE Spec2Model ----
(***************************************************************************)
(* Pricing and inventory-position services of the back-office prototype:  *)
(* pricingService.ts (pricing groups, price lists, price list items,      *)
(* price resolution) and inventoryService.ts (adjustment ledger,          *)
(* positions, availability).                                              *)
(*                                                                         *)
(* Encoding.  Ids are positive integers, the least one not in use (the    *)
(* generated ids of the program are fresh strings).  ISO dates are day    *)
(* ordinals, so that the program's string comparison of dates is <= on    *)
(* integers.  An optional field that is undefined holds Absent.  A        *)
(* Partial<T> argument is a record of options: <<>> for a key that is not *)
(* given, <<v>> for a key given with value v.  Collections are sequences  *)
(* in insertion order.                                                     *)
(***************************************************************************)
EXTENDS Integers, Sequences, FiniteSets, TLC

VARIABLES
    pricingGroups,          \* pricingGroupsCollection
    priceLists,             \* priceListsCollection
    priceListItems,         \* priceListItemsCollection
    accounts,               \* accountsCollection
    commodities,            \* commoditiesCollection
    inventoryAdjustments,   \* inventoryAdjustmentsCollection
    assignedNumbers,        \* the adjustment number suffixes handed out, in order
    running,                \* the call in progress: its position and its locals
    purchaseOrders,         \* purchaseOrdersCollection
    salesOrders,            \* salesOrdersCollection
    loads,                  \* loadsCollection
    brokeredOrders,         \* brokeredOrdersCollection
    invoices,               \* invoicesCollection
    last                    \* the last call made: its name, arguments and result

vars == <<pricingGroups, priceLists, priceListItems, accounts, commodities,
          inventoryAdjustments, assignedNumbers, running, purchaseOrders,
          salesOrders, loads, brokeredOrders, invoices, last>>

pricingVars == <<pricingGroups, priceLists, priceListItems, accounts, commodities>>
\* the collections of the order, load and invoice services, which the pricing
\* and inventory services only read
orderVars == <<purchaseOrders, salesOrders, loads, brokeredOrders, invoices>>

----------------------------------------------------------------------------
(* Bounds of the model *)

MaxGroups == 3         \* pricing groups stored at a time
MaxLists == 2          \* price lists stored at a time
MaxItems == 2          \* price list items stored at a time
MaxDate == 2           \* dates are 1..MaxDate

(* The value of an optional field that is undefined *)
Absent == 0

Directions == {"buy", "sell"}
Dates == 1..MaxDate
OptDates == {Absent} \cup Dates

Opt(S) == {<<>>} \cup {<<v>> : v \in S}
Given(o) == o # <<>>
Merge(old, o) == IF o = <<>> THEN old ELSE o[1]

----------------------------------------------------------------------------
(* The collection store: getById, query, create, update, delete *)

Ids(coll) == {coll[i].id : i \in 1..Len(coll)}
Elems(coll) == {coll[i] : i \in 1..Len(coll)}
Has(coll, id) == \E i \in 1..Len(coll) : coll[i].id = id
IndexOf(coll, id) == CHOOSE i \in 1..Len(coll) : coll[i].id = id
GetById(coll, id) == coll[IndexOf(coll, id)]
CollCreate(coll, rec) == Append(coll, rec)
CollUpdate(coll, id, rec) ==
    IF Has(coll, id) THEN [coll EXCEPT ![IndexOf(coll, id)] = rec] ELSE coll
CollDelete(coll, id) ==
    IF Has(coll, id)
    THEN LET k == IndexOf(coll, id)
         IN  [i \in 1..(Len(coll) - 1) |-> IF i < k THEN coll[i] ELSE coll[i + 1]]
    ELSE coll

(* id generation: a generated id is new.  Ids are opaque, so the model hands *)
(* out the least id that is neither stored in the collection nor referred   *)
(* to from another record.                                                  *)
FreshId(used) == CHOOSE i \in 1..(Cardinality(used) + 1) :
                     i \notin used /\ \A j \in 1..(i - 1) : j \in used

----------------------------------------------------------------------------
(* Pricing groups *)

IsDefaultFor(g, direction) == g.direction = direction /\ g.isDefault = TRUE

ClearDefaultForDirection(groups, direction) ==
    [i \in 1..Len(groups) |->
        IF IsDefaultFor(groups[i], direction)
        THEN [groups[i] EXCEPT !.isDefault = FALSE]
        ELSE groups[i]]

GetDefaultPricingGroup(groups, direction) ==
    LET found == SelectSeq(groups, LAMBDA g : IsDefaultFor(g, direction))
    IN  IF Len(found) > 0 THEN found[1].id ELSE Absent

GroupData == [direction : Directions, isDefault : BOOLEAN, isActive : BOOLEAN]
PartialGroupData ==
    [direction : Opt(Directions), isDefault : Opt(BOOLEAN), isActive : Opt(BOOLEAN)]

MergeGroup(existing, data) ==
    [id |-> existing.id,
     direction |-> Merge(existing.direction, data.direction),
     isDefault |-> Merge(existing.isDefault, data.isDefault),
     isActive |-> Merge(existing.isActive, data.isActive)]

\* groups after createPricingGroup(data), the new group getting id
CreatedPricingGroups(groups, id, data) ==
    LET cleared == IF data.isDefault
                   THEN ClearDefaultForDirection(groups, data.direction)
                   ELSE groups
    IN  CollCreate(cleared, [id |-> id, direction |-> data.direction,
                             isDefault |-> data.isDefault, isActive |-> data.isActive])

\* groups after updatePricingGroup(id, data)
UpdatedPricingGroups(groups, id, data) ==
    IF ~Has(groups, id) THEN groups
    ELSE LET existing == GetById(groups, id)
             cleared == IF data.isDefault = <<TRUE>> /\ ~existing.isDefault
                        THEN ClearDefaultForDirection(groups, existing.direction)
                        ELSE groups
         IN  CollUpdate(cleared, id, MergeGroup(existing, data))

\* groups after setAsDefault(id)
DefaultedPricingGroups(groups, id) ==
    IF ~Has(groups, id) THEN groups
    ELSE LET group == GetById(groups, id)
             cleared == ClearDefaultForDirection(groups, group.direction)
         IN  UpdatedPricingGroups(cleared, id,
                 [direction |-> <<>>, isDefault |-> <<TRUE>>, isActive |-> <<>>])

GroupIdsInUse ==
    Ids(pricingGroups) \cup {l.pricingGroupId : l \in Elems(priceLists)}
        \cup {a.buyPricingGroupId : a \in Elems(accounts)}
        \cup {a.sellPricingGroupId : a \in Elems(accounts)}

createPricingGroup(data) ==
    /\ pricingGroups' = CreatedPricingGroups(pricingGroups, FreshId(GroupIdsInUse), data)
    /\ last' = [op |-> "createPricingGroup", id |-> FreshId(GroupIdsInUse)]
    /\ UNCHANGED <<priceLists, priceListItems, accounts, commodities,
                   inventoryAdjustments, assignedNumbers,
                   running, orderVars>>

updatePricingGroup(id, data) ==
    /\ pricingGroups' = UpdatedPricingGroups(pricingGroups, id, data)
    /\ last' = [op |-> "updatePricingGroup", id |-> id]
    /\ UNCHANGED <<priceLists, priceListItems, accounts, commodities,
                   inventoryAdjustments, assignedNumbers,
                   running, orderVars>>

setAsDefault(id) ==
    /\ pricingGroups' = DefaultedPricingGroups(pricingGroups, id)
    /\ last' = [op |-> "setAsDefault", id |-> id]
    /\ UNCHANGED <<priceLists, priceListItems, accounts, commodities,
                   inventoryAdjustments, assignedNumbers,
                   running, orderVars>>

----------------------------------------------------------------------------
(* The pricing group registry on its own: an empty store, then any         *)
(* sequence of createPricingGroup, updatePricingGroup and setAsDefault.    *)

InitEmpty ==
    /\ pricingGroups = <<>>
    /\ priceLists = <<>>
    /\ priceListItems = <<>>
    /\ accounts = <<>>
    /\ commodities = <<>>
    /\ inventoryAdjustments = <<>>
    /\ purchaseOrders = <<>>
    /\ salesOrders = <<>>
    /\ loads = <<>>
    /\ assignedNumbers = <<>>
    /\ running = [op |-> "none"]
    /\ brokeredOrders = <<>>
    /\ invoices = <<>>
    /\ last = [op |-> "none"]

NextGroups ==
    \/ \E data \in GroupData :
           Len(pricingGroups) < MaxGroups /\ createPricingGroup(data)
    \/ \E id \in 1..MaxGroups, data \in PartialGroupData : updatePricingGroup(id, data)
    \/ \E id \in 1..MaxGroups : setAsDefault(id)

SpecGroups == InitEmpty /\ [][NextGroups]_vars

DefaultsOf(direction) ==
    {i \in 1..Len(pricingGroups) : IsDefaultFor(pricingGroups[i], direction)}

\* C1: for each direction, at most one pricing group of that direction has
\* isDefault = true, in every state reached by createPricingGroup,
\* updatePricingGroup (any partial data) and setAsDefault from the empty store.
DefaultUniqueness ==
    \A d \in Directions : Cardinality(DefaultsOf(d)) <= 1

----------------------------------------------------------------------------
(* Price lists and price list items *)

\* '9999-12-31', the end of a period with no end date
FarFuture == 99991231

ListGroupIds == {1, 2}      \* the pricingGroupId values given to price lists
CommodityIds == {1, 2}      \* the commodityId values given to items
Prices == {1, 2}            \* the price values given to items

datesOverlap(start1, end1, start2, end2) ==
    LET effectiveEnd1 == IF end1 = Absent THEN FarFuture ELSE end1
        effectiveEnd2 == IF end2 = Absent THEN FarFuture ELSE end2
    IN  start1 <= effectiveEnd2 /\ start2 <= effectiveEnd1

ListData == [pricingGroupId : ListGroupIds, effectiveDate : Dates,
             expirationDate : OptDates, isActive : BOOLEAN]
PartialListData == [pricingGroupId : Opt(ListGroupIds), effectiveDate : Opt(Dates),
                    expirationDate : Opt(OptDates), isActive : Opt(BOOLEAN)]
ItemData == [priceListId : 1..MaxLists, commodityId : CommodityIds, price : Prices]
PartialItemData == [priceListId : Opt(1..MaxLists), commodityId : Opt(CommodityIds),
                    price : Opt(Prices)]

MergeList(existing, data) ==
    [id |-> existing.id,
     pricingGroupId |-> Merge(existing.pricingGroupId, data.pricingGroupId),
     effectiveDate |-> Merge(existing.effectiveDate, data.effectiveDate),
     expirationDate |-> Merge(existing.expirationDate, data.expirationDate),
     isActive |-> Merge(existing.isActive, data.isActive)]

MergeItem(existing, data) ==
    [id |-> existing.id,
     priceListId |-> Merge(existing.priceListId, data.priceListId),
     commodityId |-> Merge(existing.commodityId, data.commodityId),
     price |-> Merge(existing.price, data.price)]

\* a validation that looks at the target price list only
validateSameListOnly(lists, items, priceListId, commodityId, excludeItemId) ==
    IF ~Has(lists, priceListId) THEN [valid |-> FALSE, conflictingPriceList |-> Absent]
    ELSE IF \E i \in 1..Len(items) : /\ items[i].priceListId = priceListId
                                     /\ items[i].commodityId = commodityId
                                     /\ items[i].id # excludeItemId
         THEN [valid |-> FALSE, conflictingPriceList |-> priceListId]
         ELSE [valid |-> TRUE, conflictingPriceList |-> Absent]

\* validateCommodityUniqueness(priceListId, commodityId, excludeItemId?);
\* excludeItemId is Absent when not given
validateCommodityUniqueness(lists, items, priceListId, commodityId, excludeItemId) ==
    IF ~Has(lists, priceListId) THEN [valid |-> FALSE, conflictingPriceList |-> Absent]
    ELSE
      LET priceList == GetById(lists, priceListId)
          conflicts(otherList) ==
              /\ otherList.pricingGroupId = priceList.pricingGroupId
              /\ otherList.id # priceListId
              /\ datesOverlap(priceList.effectiveDate, priceList.expirationDate,
                              otherList.effectiveDate, otherList.expirationDate)
              /\ \E i \in 1..Len(items) : /\ items[i].priceListId = otherList.id
                                          /\ items[i].commodityId = commodityId
                                          /\ items[i].id # excludeItemId
          conflicting == SelectSeq(lists, conflicts)
          conflictInCurrent ==
              \E i \in 1..Len(items) : /\ items[i].priceListId = priceListId
                                       /\ items[i].commodityId = commodityId
                                       /\ items[i].id # excludeItemId
      IN  IF Len(conflicting) > 0
          THEN [valid |-> FALSE, conflictingPriceList |-> conflicting[1].id]
          ELSE IF conflictInCurrent
               THEN [valid |-> FALSE, conflictingPriceList |-> priceListId]
               ELSE [valid |-> TRUE, conflictingPriceList |-> Absent]

ListIdsInUse == Ids(priceLists) \cup {i.priceListId : i \in Elems(priceListItems)}

createPriceList(data) ==
    /\ priceLists' = CollCreate(priceLists,
           [id |-> FreshId(ListIdsInUse), pricingGroupId |-> data.pricingGroupId,
            effectiveDate |-> data.effectiveDate,
            expirationDate |-> data.expirationDate, isActive |-> data.isActive])
    /\ last' = [op |-> "createPriceList"]
    /\ UNCHANGED <<pricingGroups, priceListItems, accounts, commodities,
                   inventoryAdjustments, assignedNumbers,
                   running, orderVars>>

updatePriceList(id, data) ==
    /\ priceLists' = IF Has(priceLists, id)
                     THEN CollUpdate(priceLists, id, MergeList(GetById(priceLists, id), data))
                     ELSE priceLists
    /\ last' = [op |-> "updatePriceList"]
    /\ UNCHANGED <<pricingGroups, priceListItems, accounts, commodities,
                   inventoryAdjustments, assignedNumbers,
                   running, orderVars>>

\* items after deletePriceList(id) has deleted the items of the list
ItemsWithoutList(items, id) == SelectSeq(items, LAMBDA item : item.priceListId # id)

deletePriceList(id) ==
    /\ priceListItems' = ItemsWithoutList(priceListItems, id)
    /\ priceLists' = CollDelete(priceLists, id)
    /\ last' = [op |-> "deletePriceList"]
    /\ UNCHANGED <<pricingGroups, accounts, commodities,
                   inventoryAdjustments, assignedNumbers,
                   running, orderVars>>

createPriceListItem(data) ==
    LET validation == validateCommodityUniqueness(priceLists, priceListItems,
                          data.priceListId, data.commodityId, Absent)
    IN  IF ~validation.valid
        THEN /\ last' = [op |-> "createPriceListItem", data |-> data, threw |-> TRUE,
                         id |-> Absent]
             /\ UNCHANGED <<pricingVars, inventoryAdjustments, assignedNumbers,
                   running, orderVars>>
        ELSE /\ priceListItems' = CollCreate(priceListItems,
                    [id |-> FreshId(Ids(priceListItems)), priceListId |-> data.priceListId,
                     commodityId |-> data.commodityId, price |-> data.price])
             /\ last' = [op |-> "createPriceListItem", data |-> data, threw |-> FALSE,
                         id |-> FreshId(Ids(priceListItems))]
             /\ UNCHANGED <<pricingGroups, priceLists, accounts, commodities,
                            inventoryAdjustments, assignedNumbers,
                   running, orderVars>>

updatePriceListItem(id, data) ==
    IF ~Has(priceListItems, id)
    THEN /\ last' = [op |-> "updatePriceListItem", threw |-> FALSE]
         /\ UNCHANGED <<pricingVars, inventoryAdjustments, assignedNumbers,
                   running, orderVars>>
    ELSE
      LET existing == GetById(priceListItems, id)
          validated == Given(data.commodityId) /\ data.commodityId[1] # existing.commodityId
          validation == validateCommodityUniqueness(priceLists, priceListItems,
                            existing.priceListId, data.commodityId[1], id)
      IN  IF validated /\ ~validation.valid
          THEN /\ last' = [op |-> "updatePriceListItem", threw |-> TRUE]
               /\ UNCHANGED <<pricingVars, inventoryAdjustments, assignedNumbers,
                   running, orderVars>>
          ELSE /\ priceListItems' = CollUpdate(priceListItems, id, MergeItem(existing, data))
               /\ last' = [op |-> "updatePriceListItem", threw |-> FALSE]
               /\ UNCHANGED <<pricingGroups, priceLists, accounts, commodities,
                              inventoryAdjustments, assignedNumbers,
                   running, orderVars>>

deletePriceListItem(id) ==
    /\ priceListItems' = CollDelete(priceListItems, id)
    /\ last' = [op |-> "deletePriceListItem"]
    /\ UNCHANGED <<pricingGroups, priceLists, accounts, commodities,
                   inventoryAdjustments, assignedNumbers,
                   running, orderVars>>

----------------------------------------------------------------------------
(* The price list and item store on its own: an empty store, then any      *)
(* sequence of the price list and price list item operations.              *)

\* the inputs of this specification: validation reads neither isActive nor price,
\* and an item is moved to a price list that exists
ListInputs == {d \in ListData : d.isActive}
PartialListInputs == {d \in PartialListData : d.isActive = <<>>}
ItemInputs == {d \in ItemData : d.price = 1}
PartialItemInputs == {d \in PartialItemData : d.price = <<>>}

NextLists ==
    \/ \E data \in ListInputs : Len(priceLists) < MaxLists /\ createPriceList(data)
    \/ \E id \in 1..MaxLists, data \in PartialListInputs : updatePriceList(id, data)
    \/ \E id \in 1..MaxLists : deletePriceList(id)
    \/ \E data \in ItemInputs :
           Len(priceListItems) < MaxItems /\ createPriceListItem(data)
    \/ \E id \in 1..MaxItems, data \in PartialItemInputs :
           /\ Given(data.priceListId) => Has(priceLists, data.priceListId[1])
           /\ updatePriceListItem(id, data)
    \/ \E id \in 1..MaxItems : deletePriceListItem(id)

SpecLists == InitEmpty /\ [][NextLists]_vars

\* the overlap rule of the data model: an absent end is 9999-12-31, and two
\* ranges overlap unless one ends before the other starts
EndOf(list) == IF list.expirationDate = Absent THEN FarFuture ELSE list.expirationDate
RangesOverlap(a, b) == ~(EndOf(a) < b.effectiveDate \/ EndOf(b) < a.effectiveDate)

\* the price list an item belongs to, as a set (empty when the list is gone)
ListsOf(item) == {l \in Elems(priceLists) : l.id = item.priceListId}

\* C2: no two distinct items with the same commodityId belong to the same
\* price list, or to two price lists of one pricing group whose date ranges
\* overlap.
NoOverlappingDuplicates ==
    \A i, j \in Elems(priceListItems) :
        (i.id # j.id /\ i.commodityId = j.commodityId) =>
            /\ \/ i.priceListId # j.priceListId
               \/ ListsOf(i) = {}
            /\ \A a \in ListsOf(i), b \in ListsOf(j) :
                   (a.id # b.id /\ a.pricingGroupId = b.pricingGroupId)
                       => ~RangesOverlap(a, b)

----------------------------------------------------------------------------
(* createPriceListItem on any store of two price lists: the store is drawn  *)
(* from the stores the list and item operations can build (updatePriceList  *)
(* and updatePriceListItem write any field, so every combination of lists   *)
(* and items is one), and one call is made on it.                           *)

StoredItems == [priceListId : {1, 2}, commodityId : CommodityIds, price : {1}]

\* the sequences of at most n records of S, with ids 1, 2, ... in order
Stores(S, n) ==
    UNION {{[i \in 1..k |-> [id |-> i] @@ f[i]] : f \in [1..k -> S]} : k \in 0..n}

InitItems ==
    /\ pricingGroups = <<>>
    /\ \E a, b \in ListInputs :
           priceLists = <<[id |-> 1] @@ a, [id |-> 2] @@ b>>
    /\ priceListItems \in Stores(StoredItems, MaxItems)
    /\ accounts = <<>>
    /\ commodities = <<>>
    /\ inventoryAdjustments = <<>>
    /\ purchaseOrders = <<>>
    /\ salesOrders = <<>>
    /\ loads = <<>>
    /\ assignedNumbers = <<>>
    /\ running = [op |-> "none"]
    /\ brokeredOrders = <<>>
    /\ invoices = <<>>
    /\ last = [op |-> "none"]

NextItems ==
    \/ \E data \in ItemInputs : last.op = "none" /\ createPriceListItem(data)

SpecItems == InitItems /\ [][NextItems]_vars

\* an item for the commodity is already held by the target price list, or by
\* another price list of the same pricing group whose range overlaps the target's
HeldInOverlap(priceListId, commodityId) ==
    \E item \in Elems(priceListItems) :
        /\ item.commodityId = commodityId
        /\ \/ item.priceListId = priceListId
           \/ \E a, b \in Elems(priceLists) :
                  /\ a.id = item.priceListId
                  /\ b.id = priceListId
                  /\ a.id # b.id
                  /\ a.pricingGroupId = b.pricingGroupId
                  /\ RangesOverlap(a, b)

\* C3: createPriceListItem for commodity X in an existing price list B throws
\* and persists nothing when B, or a price list of B's group with a range
\* overlapping B's, already holds an item for X; otherwise it succeeds and
\* persists exactly the new item.
OverlapRejection ==
    [][(last'.op = "createPriceListItem" /\ Has(priceLists, last'.data.priceListId)) =>
          IF HeldInOverlap(last'.data.priceListId, last'.data.commodityId)
          THEN last'.threw /\ UNCHANGED pricingVars
          ELSE /\ ~last'.threw
               /\ last'.id \notin Ids(priceListItems)
               /\ priceListItems' = Append(priceListItems,
                      [id |-> last'.id, priceListId |-> last'.data.priceListId,
                       commodityId |-> last'.data.commodityId,
                       price |-> last'.data.price])
               /\ UNCHANGED <<pricingGroups, priceLists, accounts, commodities>>]_vars

\* a rejected createPriceListItem whose target list does not hold the commodity:
\* the conflict is with another, overlapping list of the group
OverlapRejectionWitness ==
    /\ last.op = "createPriceListItem"
    /\ last.threw
    /\ Has(priceLists, last.data.priceListId)
    /\ \A item \in Elems(priceListItems) :
           item.commodityId = last.data.commodityId
               => item.priceListId # last.data.priceListId
    /\ HeldInOverlap(last.data.priceListId, last.data.commodityId)

----------------------------------------------------------------------------
(* Price resolution *)

\* the date filter with the expiration day still counted as effective
IsEffectiveInclusive(pl, date) ==
    pl.effectiveDate <= date /\ (pl.expirationDate = Absent \/ pl.expirationDate >= date)

\* the filter of getActivePriceListsForDate on one price list
IsEffective(pl, date) ==
    pl.effectiveDate <= date /\ (pl.expirationDate = Absent \/ pl.expirationDate > date)

getActivePriceListsForDate(lists, pricingGroupId, date) ==
    LET inGroup == SelectSeq(lists, LAMBDA pl : pl.pricingGroupId = pricingGroupId
                                               /\ pl.isActive = TRUE)
    IN  SelectSeq(inGroup, LAMBDA pl : IsEffective(pl, date))

RemoveAt(seq, k) ==
    [i \in 1..(Len(seq) - 1) |-> IF i < k THEN seq[i] ELSE seq[i + 1]]

\* the lists left in the order the store returns them
SortNot(lists) == lists

\* priceLists.sort((a, b) => b.effectiveDate.localeCompare(a.effectiveDate)):
\* by effectiveDate, latest first; lists with equal dates keep their order
RECURSIVE SortByEffectiveDateDesc(_)
SortByEffectiveDateDesc(lists) ==
    IF Len(lists) <= 1 THEN lists
    ELSE LET k == CHOOSE i \in 1..Len(lists) :
                      /\ \A j \in 1..Len(lists) :
                             lists[j].effectiveDate <= lists[i].effectiveDate
                      /\ \A j \in 1..(i - 1) :
                             lists[j].effectiveDate < lists[i].effectiveDate
         IN  <<lists[k]>> \o SortByEffectiveDateDesc(RemoveAt(lists, k))

NoPrice == [found |-> FALSE]

\* findPriceInGroup(groupId, commodity, date); the commodity is given by its id
findPriceInGroup(groupId, commodityId, date) ==
    IF ~Has(pricingGroups, groupId) THEN NoPrice
    ELSE
      LET sorted == SortByEffectiveDateDesc(
                        getActivePriceListsForDate(priceLists, groupId, date))
          itemsOf(pl) == SelectSeq(priceListItems,
                             LAMBDA i : i.priceListId = pl.id /\ i.commodityId = commodityId)
          holding == SelectSeq(sorted, LAMBDA pl : Len(itemsOf(pl)) > 0)
      IN  IF Len(holding) = 0 THEN NoPrice
          ELSE LET priceList == holding[1]
                   item == itemsOf(priceList)[1]
               IN  [found |-> TRUE,
                    commodityId |-> commodityId,
                    price |-> item.price,
                    priceListId |-> priceList.id,
                    pricingGroupId |-> groupId,
                    effectiveDate |-> priceList.effectiveDate,
                    expirationDate |-> priceList.expirationDate]

AssignedGroupId(account, direction) ==
    IF direction = "buy" THEN account.buyPricingGroupId ELSE account.sellPricingGroupId

\* a resolution that never falls back to the default group
getPriceAssignedOnly(accountId, commodityId, direction, date) ==
    IF ~Has(accounts, accountId) \/ ~Has(commodities, commodityId) THEN NoPrice
    ELSE LET assignedGroupId == AssignedGroupId(GetById(accounts, accountId), direction)
         IN  IF assignedGroupId # Absent
             THEN findPriceInGroup(assignedGroupId, commodityId, date)
             ELSE NoPrice

\* getPrice(accountId, commodityId, direction, date)
getPriceResult(accountId, commodityId, direction, date) ==
    IF ~Has(accounts, accountId) THEN NoPrice
    ELSE IF ~Has(commodities, commodityId) THEN NoPrice
    ELSE LET assignedGroupId == AssignedGroupId(GetById(accounts, accountId), direction)
             assigned == IF assignedGroupId # Absent
                         THEN findPriceInGroup(assignedGroupId, commodityId, date)
                         ELSE NoPrice
             defaultGroup == GetDefaultPricingGroup(pricingGroups, direction)
         IN  IF assigned.found THEN assigned
             ELSE IF defaultGroup # Absent
                  THEN findPriceInGroup(defaultGroup, commodityId, date)
                  ELSE NoPrice

\* a read that closes the purchase orders it has fetched
ClosesPurchaseOrders ==
    /\ purchaseOrders' = [i \in 1..Len(purchaseOrders) |->
                              [purchaseOrders[i] EXCEPT !.status = "closed"]]
    /\ UNCHANGED <<pricingVars, inventoryAdjustments, assignedNumbers, running,
                   salesOrders, loads, brokeredOrders, invoices>>

Unchanged == UNCHANGED <<pricingVars, inventoryAdjustments, assignedNumbers,
                   running, orderVars>>

getPrice(accountId, commodityId, direction, date) ==
    /\ last' = [op |-> "getPrice", accountId |-> accountId, commodityId |-> commodityId,
                direction |-> direction, date |-> date,
                result |-> getPriceResult(accountId, commodityId, direction, date)]
    /\ Unchanged

findPriceInGroupCall(groupId, commodityId, date) ==
    /\ last' = [op |-> "findPriceInGroup", groupId |-> groupId,
                commodityId |-> commodityId, date |-> date,
                result |-> findPriceInGroup(groupId, commodityId, date)]
    /\ Unchanged

----------------------------------------------------------------------------
(* findPriceInGroup and getPrice over the price lists of a store: two       *)
(* pricing groups (the second the buy default), one account assigned to the *)
(* first, two price lists with any fields, and no item, one item, or two    *)
(* items of different prices.                                               *)

InitFind ==
    /\ pricingGroups =
           <<[id |-> 1, direction |-> "buy", isDefault |-> FALSE, isActive |-> TRUE],
             [id |-> 2, direction |-> "buy", isDefault |-> TRUE, isActive |-> TRUE]>>
    /\ \E a, b \in ListData : priceLists = <<[id |-> 1] @@ a, [id |-> 2] @@ b>>
    /\ priceListItems \in Stores([priceListId : {1, 2}, commodityId : CommodityIds,
                                  price : {1}], 1)
                          \cup {<<[id |-> 1] @@ x, [id |-> 2] @@ y>> :
                                   x \in [priceListId : {1, 2}, commodityId : CommodityIds,
                                          price : {1}],
                                   y \in [priceListId : {1, 2}, commodityId : CommodityIds,
                                          price : {2}]}
    /\ accounts = <<[id |-> 1, buyPricingGroupId |-> 1, sellPricingGroupId |-> Absent]>>
    /\ commodities = <<[id |-> 1, isActive |-> TRUE], [id |-> 2, isActive |-> TRUE]>>
    /\ inventoryAdjustments = <<>>
    /\ purchaseOrders = <<>>
    /\ salesOrders = <<>>
    /\ loads = <<>>
    /\ assignedNumbers = <<>>
    /\ running = [op |-> "none"]
    /\ brokeredOrders = <<>>
    /\ invoices = <<>>
    /\ last = [op |-> "none"]

NextFind ==
    \/ \E groupId \in 1..3, commodityId \in CommodityIds, date \in Dates :
           last.op = "none" /\ findPriceInGroupCall(groupId, commodityId, date)
    \/ \E commodityId \in CommodityIds, date \in Dates :
           last.op = "none" /\ getPrice(1, commodityId, "buy", date)

SpecFind == InitFind /\ [][NextFind]_vars

\* the price lists of a group that are active and effective on a date and hold
\* an item for a commodity
Candidates(groupId, commodityId, date) ==
    {l \in Elems(priceLists) :
        /\ l.pricingGroupId = groupId
        /\ l.isActive
        /\ l.effectiveDate <= date
        /\ (l.expirationDate = Absent \/ l.expirationDate > date)
        /\ \E item \in Elems(priceListItems) :
               item.priceListId = l.id /\ item.commodityId = commodityId}

\* C5: when two or more active price lists of an existing group are effective
\* on the query date and each holds an item for the commodity, findPriceInGroup
\* returns an item of a list with the latest effectiveDate among them: its
\* price, with that list's id and effectiveDate.
MostRecentListWins ==
    (last.op = "findPriceInGroup" /\ Has(pricingGroups, last.groupId)) =>
        LET cands == Candidates(last.groupId, last.commodityId, last.date)
        IN  Cardinality(cands) >= 2 =>
                /\ last.result.found
                /\ \E l \in cands :
                       /\ \A m \in cands : m.effectiveDate <= l.effectiveDate
                       /\ last.result.priceListId = l.id
                       /\ last.result.effectiveDate = l.effectiveDate
                       /\ \E item \in Elems(priceListItems) :
                              /\ item.priceListId = l.id
                              /\ item.commodityId = last.commodityId
                              /\ item.price = last.result.price

\* findPriceInGroup has answered with two candidate lists of different
\* effective dates and prices
MostRecentListWinsWitness ==
    /\ last.op = "findPriceInGroup"
    /\ last.result.found
    /\ \E l, m \in Candidates(last.groupId, last.commodityId, last.date) :
           /\ l.effectiveDate < m.effectiveDate
           /\ m.id = last.result.priceListId
           /\ \E i, j \in Elems(priceListItems) :
                  /\ i.priceListId = l.id /\ j.priceListId = m.id
                  /\ i.commodityId = last.commodityId
                  /\ j.commodityId = last.commodityId
                  /\ i.price # j.price

\* the groups a call searches
SearchedGroups ==
    IF last.op = "findPriceInGroup" THEN {last.groupId}
    ELSE {AssignedGroupId(GetById(accounts, last.accountId), last.direction),
          GetDefaultPricingGroup(pricingGroups, last.direction)}

\* C6: a price returned by findPriceInGroup or getPrice for (commodity, date)
\* is the price of an item with that commodityId in a price list of a searched
\* group that is active, has effectiveDate <= date, and has no expirationDate
\* or one strictly after date.
PriceFromEffectiveList ==
    (last.op \in {"findPriceInGroup", "getPrice"} /\ last.result.found) =>
        \E l \in Elems(priceLists), item \in Elems(priceListItems) :
            /\ l.id = last.result.priceListId
            /\ l.pricingGroupId = last.result.pricingGroupId
            /\ l.pricingGroupId \in SearchedGroups
            /\ item.priceListId = l.id
            /\ item.commodityId = last.commodityId
            /\ item.price = last.result.price
            /\ l.isActive = TRUE
            /\ l.effectiveDate <= last.date
            /\ (l.expirationDate = Absent \/ l.expirationDate > last.date)

\* getPrice has answered from the default group while the assigned group holds
\* the commodity only in a list that is inactive, not yet effective or expired
PriceFromEffectiveListWitness ==
    /\ last.op = "getPrice"
    /\ last.result.found
    /\ last.result.pricingGroupId = 2
    /\ \E l \in Elems(priceLists), item \in Elems(priceListItems) :
           /\ l.pricingGroupId = 1
           /\ item.priceListId = l.id
           /\ item.commodityId = last.commodityId
           /\ l.expirationDate # Absent
           /\ l.expirationDate = last.date

----------------------------------------------------------------------------
(* getPrice over the pricing groups of a store: at most two pricing groups  *)
(* with any direction and default flag, one account with any assignment,    *)
(* one commodity, one open-ended active price list in each group, at most   *)
(* two items.                                                               *)

InitResolve ==
    /\ pricingGroups \in Stores([direction : Directions, isDefault : BOOLEAN,
                                 isActive : {TRUE}], 2)
    /\ \E e1, e2 \in Dates :
           priceLists = <<[id |-> 1, pricingGroupId |-> 1, effectiveDate |-> e1,
                           expirationDate |-> Absent, isActive |-> TRUE],
                          [id |-> 2, pricingGroupId |-> 2, effectiveDate |-> e2,
                           expirationDate |-> Absent, isActive |-> TRUE]>>
    /\ priceListItems \in Stores(StoredItems, 2)
    /\ \E b, s \in {Absent, 1, 2} :
           accounts = <<[id |-> 1, buyPricingGroupId |-> b, sellPricingGroupId |-> s]>>
    /\ commodities = <<[id |-> 1, isActive |-> TRUE]>>
    /\ inventoryAdjustments = <<>>
    /\ purchaseOrders = <<>>
    /\ salesOrders = <<>>
    /\ loads = <<>>
    /\ assignedNumbers = <<>>
    /\ running = [op |-> "none"]
    /\ brokeredOrders = <<>>
    /\ invoices = <<>>
    /\ last = [op |-> "none"]

NextResolve ==
    \/ \E accountId \in {1, 2}, commodityId \in CommodityIds,
          direction \in Directions, date \in Dates :
           last.op = "none" /\ getPrice(accountId, commodityId, direction, date)

SpecResolve == InitResolve /\ [][NextResolve]_vars

\* the default groups of a direction
DefaultGroupIds(direction) ==
    {g.id : g \in {x \in Elems(pricingGroups) : x.direction = direction /\ x.isDefault}}

\* the answer of the group assigned to the account of the last call, if any
FromAssigned ==
    LET account == GetById(accounts, last.accountId)
        assigned == IF last.direction = "buy" THEN account.buyPricingGroupId
                    ELSE account.sellPricingGroupId
    IN  IF assigned = Absent THEN NoPrice
        ELSE findPriceInGroup(assigned, last.commodityId, last.date)

\* C4: getPrice returns the price found in the account's assigned group for
\* the direction whenever that group resolves one; otherwise the price found
\* in the direction's default group; it returns null only when neither group
\* resolves a price, or the account or the commodity does not exist.
ResolutionPriority ==
    last.op = "getPrice" =>
        IF ~Has(accounts, last.accountId) \/ ~Has(commodities, last.commodityId)
        THEN ~last.result.found
        ELSE IF FromAssigned.found
             THEN last.result = FromAssigned
             ELSE IF DefaultGroupIds(last.direction) = {}
                  THEN ~last.result.found
                  ELSE \E g \in DefaultGroupIds(last.direction) :
                           last.result = findPriceInGroup(g, last.commodityId, last.date)

\* getPrice has answered with the default group's price for an account whose
\* assigned group exists and has no price for the commodity
ResolutionPriorityWitness ==
    /\ last.op = "getPrice"
    /\ last.result.found
    /\ Has(accounts, last.accountId)
    /\ LET account == GetById(accounts, last.accountId)
           assigned == IF last.direction = "buy" THEN account.buyPricingGroupId
                       ELSE account.sellPricingGroupId
       IN  /\ assigned # Absent
           /\ Has(pricingGroups, assigned)
           /\ ~FromAssigned.found
           /\ last.result.pricingGroupId # assigned
           /\ last.result.pricingGroupId \in DefaultGroupIds(last.direction)

----------------------------------------------------------------------------
(* Inventory: the adjustment ledger and the pending movements of open orders *)
(*                                                                           *)
(* Quantities are integers.  An adjustmentNumber 'ADJ-0001' is held as the   *)
(* digits <<0, 0, 0, 1>> that follow 'ADJ-'.                                 *)
(* A purchase order line is [commodityId, quantity, receivedQuantity], a     *)
(* sales order line [commodityId, quantity, shippedQuantity]; an undefined   *)
(* receivedQuantity or shippedQuantity is Absent, which `|| 0` reads as 0.   *)

RECURSIVE SumQuantity(_)
\* adjustments.reduce((sum, adj) => sum + adj.quantity, 0)
SumQuantity(adjustments) ==
    IF adjustments = <<>> THEN 0
    ELSE adjustments[1].quantity + SumQuantity(Tail(adjustments))

getCurrentInventory(adjustments, commodityId, locationId) ==
    SumQuantity(SelectSeq(adjustments,
        LAMBDA adj : /\ adj.commodityId = commodityId
                     /\ (locationId = Absent \/ adj.locationId = locationId)))

\* an expected date that prefers the scheduled date of the load to its actual date
getExpectedDateScheduledFirst(linked, order, movementType, today) ==
    LET load == linked[1]
        orderDate == IF order.endDate # Absent THEN order.endDate
                     ELSE IF order.startDate # Absent THEN order.startDate
                     ELSE today
    IN  IF Len(linked) = 0 THEN orderDate
        ELSE IF movementType = "pickup" /\ load.scheduledPickupDate # Absent
             THEN load.scheduledPickupDate
        ELSE IF movementType = "delivery" /\ load.scheduledDeliveryDate # Absent
             THEN load.scheduledDeliveryDate
        ELSE IF movementType = "pickup" /\ load.actualPickupDate # Absent
             THEN load.actualPickupDate
        ELSE IF movementType = "delivery" /\ load.actualDeliveryDate # Absent
             THEN load.actualDeliveryDate
        ELSE orderDate

\* getExpectedDate(load, order, movementType); linked holds the loads linked to
\* the order, of which the first is the load passed
getExpectedDate(linked, order, movementType, today) ==
    LET load == linked[1]
        orderDate == IF order.endDate # Absent THEN order.endDate
                     ELSE IF order.startDate # Absent THEN order.startDate
                     ELSE today
    IN  IF Len(linked) = 0 THEN orderDate
        ELSE IF movementType = "pickup" /\ load.actualPickupDate # Absent
             THEN load.actualPickupDate
        ELSE IF movementType = "delivery" /\ load.actualDeliveryDate # Absent
             THEN load.actualDeliveryDate
        ELSE IF movementType = "pickup" /\ load.scheduledPickupDate # Absent
             THEN load.scheduledPickupDate
        ELSE IF movementType = "delivery" /\ load.scheduledDeliveryDate # Absent
             THEN load.scheduledDeliveryDate
        ELSE orderDate

RECURSIVE Lines(_)
\* the (order, line item) pairs in the order the nested loops visit them
Lines(orders) ==
    IF orders = <<>> THEN <<>>
    ELSE [i \in 1..Len(orders[1].lineItems) |->
             [order |-> orders[1], item |-> orders[1].lineItems[i]]]
         \o Lines(Tail(orders))

IsOpen(order) == order.status # "voided" /\ order.status # "closed"

RECURSIVE SumSeq(_)
\* let total = 0; total += pending, over the lines counted
SumSeq(numbers) ==
    IF numbers = <<>> THEN 0 ELSE numbers[1] + SumSeq(Tail(numbers))

MapSeq(seq, F(_)) == [i \in 1..Len(seq) |-> F(seq[i])]

\* an incoming total that nets over-received lines against the pending ones
calculateIncomingNet(commodityId, locationId, byDate, today) ==
    LET pos == SelectSeq(purchaseOrders, IsOpen)
        expected(line) ==
            getExpectedDate(SelectSeq(loads, LAMBDA l : l.purchaseOrderId = line.order.id),
                            line.order, "delivery", today)
        pending(line) == line.item.quantity - line.item.receivedQuantity
        counted(line) ==
            /\ ~(locationId # Absent /\ line.order.facilityId # locationId)
            /\ line.item.commodityId = commodityId
            /\ ~(byDate # Absent /\ expected(line) > byDate)
        movement(line) ==
            [type |-> "po_incoming", commodityId |-> line.item.commodityId,
             locationId |-> line.order.facilityId, quantity |-> pending(line),
             expectedDate |-> expected(line), sourceId |-> line.order.id]
        countedLines == SelectSeq(Lines(pos), counted)
    IN  [total |-> SumSeq(MapSeq(countedLines, pending)),
         movements |-> MapSeq(countedLines, movement)]

\* calculateIncoming(commodityId, locationId?, byDate?): {total, movements}
calculateIncoming(commodityId, locationId, byDate, today) ==
    LET pos == SelectSeq(purchaseOrders, IsOpen)
        expected(line) ==
            getExpectedDate(SelectSeq(loads, LAMBDA l : l.purchaseOrderId = line.order.id),
                            line.order, "delivery", today)
        pending(line) == line.item.quantity - line.item.receivedQuantity
        counted(line) ==
            /\ ~(locationId # Absent /\ line.order.facilityId # locationId)
            /\ line.item.commodityId = commodityId
            /\ ~(pending(line) <= 0)
            /\ ~(byDate # Absent /\ expected(line) > byDate)
        movement(line) ==
            [type |-> "po_incoming", commodityId |-> line.item.commodityId,
             locationId |-> line.order.facilityId, quantity |-> pending(line),
             expectedDate |-> expected(line), sourceId |-> line.order.id]
        countedLines == SelectSeq(Lines(pos), counted)
    IN  [total |-> SumSeq(MapSeq(countedLines, pending)),
         movements |-> MapSeq(countedLines, movement)]

\* outgoing movements that record the pending quantity itself
calculateOutgoingUnsigned(commodityId, locationId, byDate, today) ==
    LET sos == SelectSeq(salesOrders, IsOpen)
        expected(line) ==
            getExpectedDate(SelectSeq(loads, LAMBDA l : l.salesOrderId = line.order.id),
                            line.order, "pickup", today)
        pending(line) == line.item.quantity - line.item.shippedQuantity
        counted(line) ==
            /\ ~(locationId # Absent /\ line.order.facilityId # locationId)
            /\ line.item.commodityId = commodityId
            /\ ~(pending(line) <= 0)
            /\ ~(byDate # Absent /\ expected(line) > byDate)
        movement(line) ==
            [type |-> "so_outgoing", commodityId |-> line.item.commodityId,
             locationId |-> line.order.facilityId, quantity |-> pending(line),
             expectedDate |-> expected(line), sourceId |-> line.order.id]
        countedLines == SelectSeq(Lines(sos), counted)
    IN  [total |-> SumSeq(MapSeq(countedLines, pending)),
         movements |-> MapSeq(countedLines, movement)]

\* calculateOutgoing(commodityId, locationId?, byDate?): {total, movements}
calculateOutgoing(commodityId, locationId, byDate, today) ==
    LET sos == SelectSeq(salesOrders, IsOpen)
        expected(line) ==
            getExpectedDate(SelectSeq(loads, LAMBDA l : l.salesOrderId = line.order.id),
                            line.order, "pickup", today)
        pending(line) == line.item.quantity - line.item.shippedQuantity
        counted(line) ==
            /\ ~(locationId # Absent /\ line.order.facilityId # locationId)
            /\ line.item.commodityId = commodityId
            /\ ~(pending(line) <= 0)
            /\ ~(byDate # Absent /\ expected(line) > byDate)
        movement(line) ==
            [type |-> "so_outgoing", commodityId |-> line.item.commodityId,
             locationId |-> line.order.facilityId, quantity |-> -pending(line),
             expectedDate |-> expected(line), sourceId |-> line.order.id]
        countedLines == SelectSeq(Lines(sos), counted)
    IN  [total |-> SumSeq(MapSeq(countedLines, pending)),
         movements |-> MapSeq(countedLines, movement)]

\* a net position with the signs of the pending totals exchanged
netPositionSwapped(currentInventory, incoming, outgoing) ==
    currentInventory - incoming + outgoing

\* const netPosition = currentInventory + incoming - outgoing
netPositionOf(currentInventory, incoming, outgoing) ==
    currentInventory + incoming - outgoing

PositionOf(commodityId, locationId, today) ==
    LET currentInventory == getCurrentInventory(inventoryAdjustments, commodityId, locationId)
        incoming == calculateIncoming(commodityId, locationId, Absent, today).total
        outgoing == calculateOutgoing(commodityId, locationId, Absent, today).total
    IN  [found |-> TRUE, commodityId |-> commodityId, locationId |-> locationId,
         currentInventory |-> currentInventory, incoming |-> incoming,
         outgoing |-> outgoing,
         netPosition |-> netPositionOf(currentInventory, incoming, outgoing)]

NoPosition == [found |-> FALSE]

\* getPosition(commodityId, locationId?)
getPositionResult(commodityId, locationId, today) ==
    IF ~Has(commodities, commodityId) THEN NoPosition
    ELSE PositionOf(commodityId, locationId, today)

\* getPositions(locationId?): one Position for each active commodity (the
\* result is sorted by commodity name, which the model does not hold, so it is
\* given as a set)
getPositionsResult(locationId, today) ==
    {PositionOf(c.id, locationId, today) : c \in {x \in Elems(commodities) : x.isActive}}

\* an availability that asks for stock to be left over
availableStrict(projectedPosition) == projectedPosition > 0

\* available: projectedPosition >= 0
availableOf(projectedPosition) == projectedPosition >= 0

\* checkAvailability(commodityId, requiredQuantity, locationId?, byDate?)
checkAvailabilityResult(commodityId, requiredQuantity, locationId, byDate, today) ==
    LET currentInventory == getCurrentInventory(inventoryAdjustments, commodityId, locationId)
        incoming == calculateIncoming(commodityId, locationId, byDate, today).total
        outgoing == calculateOutgoing(commodityId, locationId, byDate, today).total
        currentPosition == currentInventory + incoming - outgoing
        projectedPosition == currentPosition - requiredQuantity
        shortfall == IF projectedPosition < 0 THEN -projectedPosition ELSE 0
    IN  [available |-> availableOf(projectedPosition),
         currentInventory |-> currentInventory, incoming |-> incoming,
         outgoing |-> outgoing, currentPosition |-> currentPosition,
         projectedPosition |-> projectedPosition, shortfall |-> shortfall]

getPosition(commodityId, locationId, today) ==
    /\ last' = [op |-> "getPosition", commodityId |-> commodityId,
                locationId |-> locationId,
                result |-> getPositionResult(commodityId, locationId, today)]
    /\ Unchanged

getPositions(locationId, today) ==
    /\ last' = [op |-> "getPositions", locationId |-> locationId,
                result |-> getPositionsResult(locationId, today)]
    /\ Unchanged

checkAvailability(commodityId, requiredQuantity, locationId, byDate, today) ==
    /\ last' = [op |-> "checkAvailability", commodityId |-> commodityId,
                requiredQuantity |-> requiredQuantity, locationId |-> locationId,
                byDate |-> byDate,
                result |-> checkAvailabilityResult(commodityId, requiredQuantity,
                                                   locationId, byDate, today)]
    /\ Unchanged

(* The adjustment ledger *)

RECURSIVE Digits(_)
\* (n).toString(), as the sequence of its decimal digits
Digits(n) == IF n < 10 THEN <<n>> ELSE Digits(n \div 10) \o <<n % 10>>

\* s.padStart(n, fill)
PadStart(s, n, fill) ==
    IF Len(s) >= n THEN s ELSE [i \in 1..(n - Len(s)) |-> fill] \o s

RECURSIVE ParseInt(_)
\* parseInt(digits, 10)
ParseInt(s) ==
    IF s = <<>> THEN 0 ELSE ParseInt(SubSeq(s, 1, Len(s) - 1)) * 10 + s[Len(s)]

\* `ADJ-${n.toString().padStart(4, '0')}`, held as the digits after 'ADJ-'
AdjustmentNumber(n) == PadStart(Digits(n), 4, 0)

RECURSIVE MaxNum(_)
\* adjustments.reduce((max, adj) => num > max ? num : max, 0)
MaxNum(adjustments) ==
    IF adjustments = <<>> THEN 0
    ELSE LET rest == MaxNum(SubSeq(adjustments, 1, Len(adjustments) - 1))
             num == ParseInt(adjustments[Len(adjustments)].adjustmentNumber)
         IN  IF num > rest THEN num ELSE rest

generateAdjustmentNumber(adjustments) == AdjustmentNumber(MaxNum(adjustments) + 1)

AdjustmentTypes == {"count", "damage", "transfer_in", "transfer_out", "other"}

\* the ledger after createAdjustment(data)
CreatedAdjustments(adjustments, data) ==
    CollCreate(adjustments,
        [id |-> FreshId(Ids(adjustments)),
         adjustmentNumber |-> generateAdjustmentNumber(adjustments),
         commodityId |-> data.commodityId, locationId |-> data.locationId,
         adjustmentType |-> data.adjustmentType, quantity |-> data.quantity])

\* a count that writes the absolute figure into the ledger
CountAsAbsolute(adjustments, commodityId, newCount, locationId) ==
    CreatedAdjustments(adjustments,
        [commodityId |-> commodityId, locationId |-> locationId,
         adjustmentType |-> "count", quantity |-> newCount])

\* a count that replaces the matching adjustments by one holding the figure
CountAsOverwrite(adjustments, commodityId, newCount, locationId) ==
    CreatedAdjustments(
        SelectSeq(adjustments,
            LAMBDA adj : ~(/\ adj.commodityId = commodityId
                           /\ (locationId = Absent \/ adj.locationId = locationId))),
        [commodityId |-> commodityId, locationId |-> locationId,
         adjustmentType |-> "count", quantity |-> newCount])

\* the ledger after setInventoryCount(commodityId, newCount, locationId?)
CountedAdjustments(adjustments, commodityId, newCount, locationId) ==
    LET currentInventory == getCurrentInventory(adjustments, commodityId, locationId)
        adjustmentAmount == newCount - currentInventory
    IN  CreatedAdjustments(adjustments,
            [commodityId |-> commodityId, locationId |-> locationId,
             adjustmentType |-> "count", quantity |-> adjustmentAmount])

\* the suffix of the number of the adjustment a call has just appended
AssignedSuffix(adjustments) == ParseInt(adjustments[Len(adjustments)].adjustmentNumber)

createAdjustment(data) ==
    /\ inventoryAdjustments' = CreatedAdjustments(inventoryAdjustments, data)
    /\ assignedNumbers' = Append(assignedNumbers, AssignedSuffix(inventoryAdjustments'))
    /\ last' = [op |-> "createAdjustment"]
    /\ UNCHANGED <<pricingVars, running, orderVars>>

\* deleteAdjustment(id)
deleteAdjustment(id) ==
    /\ inventoryAdjustments' = CollDelete(inventoryAdjustments, id)
    /\ last' = [op |-> "deleteAdjustment", id |-> id,
                result |-> Has(inventoryAdjustments, id)]
    /\ UNCHANGED <<pricingVars, assignedNumbers, running, orderVars>>

setInventoryCount(commodityId, newCount, locationId) ==
    /\ inventoryAdjustments' =
           CountedAdjustments(inventoryAdjustments, commodityId, newCount, locationId)
    /\ last' = [op |-> "setInventoryCount", commodityId |-> commodityId,
                newCount |-> newCount, locationId |-> locationId]
    /\ assignedNumbers' = Append(assignedNumbers, AssignedSuffix(inventoryAdjustments'))
    /\ UNCHANGED <<pricingVars, running, orderVars>>

----------------------------------------------------------------------------
(* SpecLedger: one call on a ledger of up to MaxAdjustments adjustments *)

MaxAdjustments == 2
MaxCount == 2

LocationIds == {1, 2}
StoredAdjustments ==
    [commodityId : CommodityIds, locationId : {Absent} \cup LocationIds,
     adjustmentType : {"other"}, quantity : {-1, 1, 2}]

\* the ledgers of at most n adjustments, numbered as createAdjustment numbers them
Ledgers(n) ==
    UNION {{[i \in 1..k |-> [id |-> i, adjustmentNumber |-> AdjustmentNumber(i)] @@ f[i]] :
               f \in [1..k -> StoredAdjustments]} : k \in 0..n}

InitLedger ==
    /\ pricingGroups = <<>>
    /\ priceLists = <<>>
    /\ priceListItems = <<>>
    /\ accounts = <<>>
    /\ commodities = <<[id |-> 1, isActive |-> TRUE]>>
    /\ inventoryAdjustments \in Ledgers(MaxAdjustments)
    /\ purchaseOrders = <<>>
    /\ salesOrders = <<>>
    /\ loads = <<>>
    /\ assignedNumbers = [i \in 1..Len(inventoryAdjustments) |->
                      ParseInt(inventoryAdjustments[i].adjustmentNumber)]
    /\ running = [op |-> "none"]
    /\ brokeredOrders = <<>>
    /\ invoices = <<>>
    /\ last = [op |-> "none"]

NextLedger ==
    \/ \E commodityId \in CommodityIds, newCount \in 0..MaxCount,
          locationId \in {Absent} \cup LocationIds :
           last.op = "none" /\ setInventoryCount(commodityId, newCount, locationId)
    \/ \E data \in StoredAdjustments :
           last.op = "none" /\ createAdjustment(data)

SpecLedger == InitLedger /\ [][NextLedger]_vars

\* C9: in the state setInventoryCount(commodityId, N, locationId) leaves, a
\* getCurrentInventory(commodityId, locationId) query returns exactly N,
\* whatever the ledger was, with or without a location.
CountThenQuery ==
    last.op = "setInventoryCount" =>
        getCurrentInventory(inventoryAdjustments, last.commodityId, last.locationId)
            = last.newCount

\* a count with a location was taken on a ledger that held adjustments of the
\* commodity at another location and at that location, and changed the total
CountThenQueryWitness ==
    /\ last.op = "setInventoryCount"
    /\ last.locationId # Absent
    /\ Len(inventoryAdjustments) = 3
    /\ inventoryAdjustments[3].quantity # 0
    /\ \E i, j \in 1..2 :
           /\ inventoryAdjustments[i].commodityId = last.commodityId
           /\ inventoryAdjustments[i].locationId = last.locationId
           /\ inventoryAdjustments[j].commodityId = last.commodityId
           /\ inventoryAdjustments[j].locationId \notin {Absent, last.locationId}
    /\ getCurrentInventory(inventoryAdjustments, last.commodityId, last.locationId)
           = last.newCount

RECURSIVE SumOfQuantities(_, _)
\* the sum of the quantities of the adjustments at the positions in S
SumOfQuantities(adjustments, S) ==
    IF S = {} THEN 0
    ELSE LET i == CHOOSE i \in S : TRUE
         IN  adjustments[i].quantity + SumOfQuantities(adjustments, S \ {i})

\* the current inventory of (commodityId, locationId): the matching adjustments
\* are those of the commodity, at the location when one is given
LedgerTotal(adjustments, commodityId, locationId) ==
    SumOfQuantities(adjustments,
        {i \in 1..Len(adjustments) :
            /\ adjustments[i].commodityId = commodityId
            /\ locationId # Absent => adjustments[i].locationId = locationId})

\* C10: setInventoryCount leaves every existing adjustment as it was and
\* appends exactly one adjustment, of type 'count', for the commodity and
\* location of the call, whose quantity is newCount minus the current
\* inventory of that (commodityId, locationId) before the call.
CountIsLedgerDelta ==
    [][last'.op = "setInventoryCount" =>
          /\ Len(inventoryAdjustments') = Len(inventoryAdjustments) + 1
          /\ SubSeq(inventoryAdjustments', 1, Len(inventoryAdjustments))
                 = inventoryAdjustments
          /\ LET added == inventoryAdjustments'[Len(inventoryAdjustments')]
             IN  /\ added.adjustmentType = "count"
                 /\ added.commodityId = last'.commodityId
                 /\ added.locationId = last'.locationId
                 /\ added.id \notin Ids(inventoryAdjustments)
                 /\ added.quantity =
                        last'.newCount - LedgerTotal(inventoryAdjustments,
                                                     last'.commodityId,
                                                     last'.locationId)]_vars

\* a count was taken of a commodity whose inventory was not zero, and the
\* appended adjustment holds neither zero nor the count
CountIsLedgerDeltaWitness ==
    /\ last.op = "setInventoryCount"
    /\ Len(inventoryAdjustments) = 3
    /\ \E i \in 1..2 : /\ inventoryAdjustments[i].commodityId = last.commodityId
                       /\ inventoryAdjustments[i].locationId = last.locationId
    /\ inventoryAdjustments[3].adjustmentType = "count"
    /\ inventoryAdjustments[3].quantity \notin {0, last.newCount}

----------------------------------------------------------------------------
(* SpecPosition: one query on a store of orders, loads and adjustments *)

MaxRequired == 3

OrderStatuses == {"open", "closed"}

\* one line: the commodity, the quantity ordered and the quantity received or
\* shipped so far (Absent when none was recorded)
StoredLines(quantities) ==
    {[commodityId |-> c, quantity |-> q[1], done |-> q[2]] :
        c \in CommodityIds, q \in quantities}

PurchaseOrderOf(id, status, facilityId, line, endDate) ==
    [id |-> id, status |-> status, facilityId |-> facilityId,
     lineItems |-> <<[commodityId |-> line.commodityId, quantity |-> line.quantity,
                      receivedQuantity |-> line.done]>>,
     startDate |-> 1, endDate |-> endDate]

SalesOrderOf(id, status, facilityId, line, endDate) ==
    [id |-> id, status |-> status, facilityId |-> facilityId,
     lineItems |-> <<[commodityId |-> line.commodityId, quantity |-> line.quantity,
                      shippedQuantity |-> line.done]>>,
     startDate |-> 1, endDate |-> endDate]

StoredPurchaseOrders ==
    {<<>>} \cup {<<PurchaseOrderOf(1, status, facilityId, line, endDate)>> :
                    status \in OrderStatuses, facilityId \in {Absent, 1},
                    line \in StoredLines({<<2, Absent>>, <<1, 2>>}),
                    endDate \in Dates}

StoredSalesOrders ==
    {<<>>} \cup {<<SalesOrderOf(2, status, facilityId, line, endDate)>> :
                    status \in OrderStatuses, facilityId \in {Absent, 1},
                    line \in StoredLines({<<1, Absent>>, <<2, 2>>}),
                    endDate \in Dates}

\* no load, or one load of the purchase order delivered on the first day
StoredLoads ==
    {<<>>,
     <<[id |-> 1, purchaseOrderId |-> 1, salesOrderId |-> Absent,
        scheduledPickupDate |-> Absent, actualPickupDate |-> Absent,
        scheduledDeliveryDate |-> MaxDate, actualDeliveryDate |-> 1]>>}

InitPosition ==
    /\ pricingGroups = <<>>
    /\ priceLists = <<>>
    /\ priceListItems = <<>>
    /\ accounts = <<>>
    /\ commodities = <<[id |-> 1, isActive |-> TRUE], [id |-> 2, isActive |-> FALSE]>>
    /\ inventoryAdjustments \in
           {<<>>} \cup {<<[id |-> 1, adjustmentNumber |-> AdjustmentNumber(1),
                           commodityId |-> 1, locationId |-> locationId,
                           adjustmentType |-> "other", quantity |-> quantity]>> :
                           locationId \in {Absent, 1}, quantity \in {-1, 2}}
    /\ purchaseOrders \in StoredPurchaseOrders
    /\ salesOrders \in StoredSalesOrders
    /\ loads \in StoredLoads
    /\ assignedNumbers = [i \in 1..Len(inventoryAdjustments) |->
                      ParseInt(inventoryAdjustments[i].adjustmentNumber)]
    /\ running = [op |-> "none"]
    /\ brokeredOrders = <<>>
    /\ invoices = <<>>
    /\ last = [op |-> "none"]

NextPosition ==
    \/ \E commodityId \in {1, 3}, locationId \in {Absent, 1}, today \in Dates :
           last.op = "none" /\ getPosition(commodityId, locationId, today)
    \/ \E locationId \in {Absent, 1}, today \in Dates :
           last.op = "none" /\ getPositions(locationId, today)
    \/ \E requiredQuantity \in 0..MaxRequired, locationId \in {Absent, 1},
          byDate \in OptDates, today \in Dates :
           last.op = "none"
           /\ checkAvailability(1, requiredQuantity, locationId, byDate, today)

SpecPosition == InitPosition /\ [][NextPosition]_vars

RECURSIVE SumOfPending(_, _, _)
\* the sum of Pending(order, item) over the (order, item) positions in S
SumOfPending(orders, Pending(_), S) ==
    IF S = {} THEN 0
    ELSE LET p == CHOOSE p \in S : TRUE
         IN  Pending(orders[p[1]].lineItems[p[2]])
                 + SumOfPending(orders, Pending, S \ {p})

\* the pending total of the open orders for a commodity: over the lines of the
\* commodity on orders neither closed nor voided, at the location when one is
\* given, and due by byDate when one is given, the quantity still to come
PendingTotal(orders, Pending(_), Due(_), commodityId, locationId, byDate) ==
    SumOfPending(orders, Pending,
        {p \in UNION {{<<i, j>> : j \in 1..Len(orders[i].lineItems)} :
                         i \in 1..Len(orders)} :
            /\ orders[p[1]].status \notin {"closed", "voided"}
            /\ locationId # Absent => orders[p[1]].facilityId = locationId
            /\ orders[p[1]].lineItems[p[2]].commodityId = commodityId
            /\ Pending(orders[p[1]].lineItems[p[2]]) > 0
            /\ byDate # Absent => Due(orders[p[1]]) <= byDate})

ToReceive(item) == item.quantity - item.receivedQuantity
ToShip(item) == item.quantity - item.shippedQuantity
DeliveryDue(order) ==
    getExpectedDate(SelectSeq(loads, LAMBDA l : l.purchaseOrderId = order.id),
                    order, "delivery", Absent)
PickupDue(order) ==
    getExpectedDate(SelectSeq(loads, LAMBDA l : l.salesOrderId = order.id),
                    order, "pickup", Absent)

PendingIncoming(commodityId, locationId, byDate) ==
    PendingTotal(purchaseOrders, ToReceive, DeliveryDue, commodityId, locationId, byDate)
PendingOutgoing(commodityId, locationId, byDate) ==
    PendingTotal(salesOrders, ToShip, PickupDue, commodityId, locationId, byDate)

PositionHolds(position, locationId) ==
    /\ position.currentInventory =
           LedgerTotal(inventoryAdjustments, position.commodityId, locationId)
    /\ position.incoming = PendingIncoming(position.commodityId, locationId, Absent)
    /\ position.outgoing = PendingOutgoing(position.commodityId, locationId, Absent)
    /\ position.netPosition =
           position.currentInventory + position.incoming - position.outgoing

\* C7: the Position getPosition returns, and each Position getPositions
\* returns, has netPosition = currentInventory + incoming - outgoing, where
\* currentInventory is the sum of the matching adjustment quantities and
\* incoming and outgoing are the pending totals of the open purchase and sales
\* orders, for every store, commodity and optional location.
PositionIdentity ==
    /\ last.op = "getPosition" /\ last.result.found =>
           /\ last.result.commodityId = last.commodityId
           /\ PositionHolds(last.result, last.locationId)
    /\ last.op = "getPositions" =>
           \A position \in last.result : PositionHolds(position, last.locationId)

\* a position was returned with stock on hand, purchases to come and sales to
\* go, all three different from zero
PositionIdentityWitness ==
    /\ last.op \in {"getPosition", "getPositions"}
    /\ \E position \in (IF last.op = "getPosition" THEN {last.result} ELSE last.result) :
           /\ position.found
           /\ position.currentInventory # 0
           /\ position.incoming > 0
           /\ position.outgoing > 0
           /\ position.netPosition # position.currentInventory

\* C8: checkAvailability returns available = true iff requiredQuantity <=
\* currentPosition, with currentPosition = currentInventory + incoming (by
\* byDate) - outgoing (by byDate), projectedPosition = currentPosition -
\* requiredQuantity and shortfall = max(0, -projectedPosition); so shortfall > 0
\* iff available is false.
AvailabilityRule ==
    last.op = "checkAvailability" =>
        LET r == last.result
        IN  /\ r.currentInventory =
                   LedgerTotal(inventoryAdjustments, last.commodityId, last.locationId)
            /\ r.incoming = PendingIncoming(last.commodityId, last.locationId, last.byDate)
            /\ r.outgoing = PendingOutgoing(last.commodityId, last.locationId, last.byDate)
            /\ r.currentPosition = r.currentInventory + r.incoming - r.outgoing
            /\ r.projectedPosition = r.currentPosition - last.requiredQuantity
            /\ r.shortfall = (IF -r.projectedPosition > 0 THEN -r.projectedPosition ELSE 0)
            /\ r.available = (last.requiredQuantity <= r.currentPosition)
            /\ (r.shortfall > 0) = ~r.available

\* a check by a date that leaves a pending purchase out, for exactly the
\* quantity of the current position, was answered as available
AvailabilityRuleWitness ==
    /\ last.op = "checkAvailability"
    /\ last.byDate # Absent
    /\ last.requiredQuantity > 0
    /\ last.requiredQuantity = last.result.currentPosition
    /\ last.result.incoming < PendingIncoming(last.commodityId, last.locationId, Absent)
    /\ last.result.outgoing > 0
    /\ last.result.available
    /\ last.result.shortfall = 0

----------------------------------------------------------------------------
(* Movements and the position timeline *)
(*                                                                           *)
(* A Date is an instant, counted in hours from the start of day 0 in UTC:    *)
(* new Date('YYYY-MM-DD') is UTC midnight of the day, toISOString() reads    *)
(* the UTC day back, and getDate()/setDate() work on the wall clock of the   *)
(* zone the program runs in.  A zone is [offset, at, shift]: the wall clock  *)
(* is UTC + offset hours before the instant `at` and UTC + offset + shift    *)
(* from it on (a daylight-saving change); at = Absent for a zone without     *)
(* one.                                                                      *)

HoursPerDay == 24

RECURSIVE SortByExpectedDate(_)
\* allMovements.sort((a, b) => a.expectedDate.localeCompare(b.expectedDate)):
\* a stable sort, earliest first
SortByExpectedDate(movements) ==
    IF movements = <<>> THEN <<>>
    ELSE LET k == CHOOSE i \in 1..Len(movements) :
                      /\ \A j \in 1..Len(movements) :
                             movements[i].expectedDate <= movements[j].expectedDate
                      /\ \A j \in 1..(i - 1) :
                             movements[j].expectedDate # movements[i].expectedDate
         IN  <<movements[k]>> \o SortByExpectedDate(RemoveAt(movements, k))

\* getMovements(commodityId, locationId?, startDate?, endDate?)
getMovementsResult(commodityId, locationId, startDate, endDate, today) ==
    LET incomingMovements == calculateIncoming(commodityId, locationId, Absent, today).movements
        outgoingMovements == calculateOutgoing(commodityId, locationId, Absent, today).movements
        allMovements == incomingMovements \o outgoingMovements
        fromStart == IF startDate # Absent
                     THEN SelectSeq(allMovements, LAMBDA m : m.expectedDate >= startDate)
                     ELSE allMovements
        toEnd == IF endDate # Absent
                 THEN SelectSeq(fromStart, LAMBDA m : m.expectedDate <= endDate)
                 ELSE fromStart
    IN  SortByExpectedDate(toEnd)

\* new Date(dateStr)
DateOf(day) == day * HoursPerDay

\* d.toISOString().split('T')[0]
DateStr(d) == d \div HoursPerDay

\* the hours the wall clock of the zone is ahead of UTC at the instant d
OffsetAt(zone, d) ==
    IF zone.at # Absent /\ d >= zone.at THEN zone.offset + zone.shift ELSE zone.offset

\* a day step that adds 24 hours whatever the zone
NextDayUTC(zone, d) == d + HoursPerDay

\* d.setDate(d.getDate() + 1): the same wall-clock time on the next local day
NextDay(zone, d) ==
    LET wall == d + OffsetAt(zone, d) + HoursPerDay
    IN  wall - OffsetAt(zone, wall - OffsetAt(zone, d))

RECURSIVE TimelineFrom(_, _, _, _, _)
\* for (let d = new Date(start); d <= end; d.setDate(d.getDate() + 1)) { ... }
TimelineFrom(zone, d, end, runningPosition, movements) ==
    IF ~(d <= end) THEN <<>>
    ELSE LET dateStr == DateStr(d)
             dayMovements == SelectSeq(movements, LAMBDA m : m.expectedDate = dateStr)
             dayIncoming ==
                 SumSeq(MapSeq(SelectSeq(dayMovements, LAMBDA m : m.quantity > 0),
                               LAMBDA m : m.quantity))
             dayOutgoing ==
                 SumSeq(MapSeq(SelectSeq(dayMovements, LAMBDA m : m.quantity < 0),
                               LAMBDA m : -m.quantity))
             position == runningPosition + dayIncoming - dayOutgoing
         IN  <<[date |-> dateStr, position |-> position, incoming |-> dayIncoming,
                outgoing |-> dayOutgoing, movements |-> dayMovements]>>
             \o TimelineFrom(zone, NextDay(zone, d), end, position, movements)

\* getPositionTimeline(commodityId, locationId, startDate, endDate)
getPositionTimelineResult(zone, commodityId, locationId, startDate, endDate, today) ==
    LET currentInventory == getCurrentInventory(inventoryAdjustments, commodityId, locationId)
        movements == getMovementsResult(commodityId, locationId, startDate, endDate, today)
    IN  TimelineFrom(zone, DateOf(startDate), DateOf(endDate), currentInventory, movements)

getMovements(commodityId, locationId, startDate, endDate, today) ==
    /\ last' = [op |-> "getMovements", commodityId |-> commodityId,
                locationId |-> locationId, startDate |-> startDate,
                endDate |-> endDate,
                result |-> getMovementsResult(commodityId, locationId,
                                              startDate, endDate, today)]
    /\ Unchanged

getPositionTimeline(zone, commodityId, locationId, startDate, endDate, today) ==
    /\ last' = [op |-> "getPositionTimeline", zone |-> zone,
                commodityId |-> commodityId, locationId |-> locationId,
                startDate |-> startDate, endDate |-> endDate, today |-> today,
                result |-> getPositionTimelineResult(zone, commodityId, locationId,
                                                     startDate, endDate, today)]
    /\ Unchanged

----------------------------------------------------------------------------
(* SpecTimeline: one timeline or movements query on a store of orders, loads *)
(* and adjustments, in a zone without a daylight-saving change or in a zone  *)
(* five hours behind UTC whose clocks go forward, or back, at 02:00 of day 1 *)

UTC == [offset |-> 0, at |-> Absent, shift |-> 0]
ClocksForward == [offset |-> -5, at |-> HoursPerDay + 7, shift |-> 1]
ClocksBack == [offset |-> -4, at |-> HoursPerDay + 6, shift |-> -1]
Zones == {UTC, ClocksForward, ClocksBack}

NextTimeline ==
    \/ \E zone \in Zones, locationId \in {Absent, 1}, startDate, endDate \in Dates,
          today \in Dates :
           last.op = "none"
           /\ getPositionTimeline(zone, 1, locationId, startDate, endDate, today)
    \/ \E locationId \in {Absent, 1}, startDate, endDate \in OptDates, today \in Dates :
           last.op = "none" /\ getMovements(1, locationId, startDate, endDate, today)

SpecTimeline == InitPosition /\ [][NextTimeline]_vars

\* C11: the list getPositionTimeline returns has one entry for each calendar
\* day from startDate to endDate inclusive, in order; the first entry's
\* position is the current inventory plus that day's (incoming - outgoing),
\* and each later entry's position is the previous entry's position plus its
\* own day's (incoming - outgoing), so a day without movements carries the
\* position forward unchanged.
TimelineContinuity ==
    last.op = "getPositionTimeline" /\ last.startDate <= last.endDate =>
        LET timeline == last.result
            baseline == LedgerTotal(inventoryAdjustments, last.commodityId, last.locationId)
        IN  /\ Len(timeline) = last.endDate - last.startDate + 1
            /\ \A k \in 1..Len(timeline) :
                   /\ timeline[k].date = last.startDate + k - 1
                   /\ timeline[k].position =
                          (IF k = 1 THEN baseline ELSE timeline[k - 1].position)
                              + timeline[k].incoming - timeline[k].outgoing
                   /\ timeline[k].movements = <<>> =>
                          timeline[k].position =
                              (IF k = 1 THEN baseline ELSE timeline[k - 1].position)

\* the same, for a program that runs in a zone without a daylight-saving
\* change between startDate and endDate
TimelineContinuityUTC ==
    last.op = "getPositionTimeline" /\ last.zone = UTC => TimelineContinuity

----------------------------------------------------------------------------
(* SpecAdjustments: the adjustment ledger on its own: an empty ledger, then   *)
(* any sequence of createAdjustment, setInventoryCount and deleteAdjustment   *)
(* that hands out at most MaxAssigned numbers.                                *)

MaxAssigned == 3

NextAdjustments ==
    \/ \E quantity \in {-1, 1} :
           /\ Len(assignedNumbers) < MaxAssigned
           /\ createAdjustment([commodityId |-> 1, locationId |-> Absent,
                                adjustmentType |-> "other", quantity |-> quantity])
    \/ \E newCount \in 0..1 :
           /\ Len(assignedNumbers) < MaxAssigned
           /\ setInventoryCount(1, newCount, Absent)
    \/ \E id \in 1..MaxAssigned : deleteAdjustment(id)

SpecAdjustments == InitEmpty /\ [][NextAdjustments]_vars

\* C12: over any sequence of createAdjustment, setInventoryCount and
\* deleteAdjustment calls, every newly assigned adjustment number has a suffix
\* strictly greater than every suffix assigned earlier, so no number is handed
\* out twice, the number of a deleted adjustment included.
NumbersNeverReused ==
    \A i, j \in 1..Len(assignedNumbers) : i < j => assignedNumbers[i] < assignedNumbers[j]

\* the same, as long as no adjustment has been deleted
NumbersIncreaseWithoutDeletes ==
    Len(inventoryAdjustments) = Len(assignedNumbers) => NumbersNeverReused

----------------------------------------------------------------------------
(* Cascade deletion, one awaited collection call at a time                   *)
(*                                                                           *)
(* deletePricingGroup and deletePriceList await each collection call, so the *)
(* store passes through the states between them.  running holds the call in  *)
(* progress: its name, its argument id, the price lists still to delete      *)
(* (lists), the price list being deleted (list) and its items still to       *)
(* delete (items).                                                           *)

Idle == [op |-> "none"]

\* a check that looks at the buy assignment only
AccountsBuyingFrom(id) ==
    SelectSeq(accounts, LAMBDA a : a.buyPricingGroupId = id)

\* accountsCollection.query(a => a.buyPricingGroupId === id || a.sellPricingGroupId === id)
AccountsAssignedTo(id) ==
    SelectSeq(accounts, LAMBDA a : a.buyPricingGroupId = id \/ a.sellPricingGroupId = id)

IdsOf(coll) == [i \in 1..Len(coll) |-> coll[i].id]

\* deletePricingGroup(id), up to the query of the price lists of the group
deletePricingGroupCall(id) ==
    /\ running = Idle
    /\ IF Len(AccountsAssignedTo(id)) > 0
       THEN /\ last' = [op |-> "deletePricingGroup", id |-> id, threw |-> TRUE]
            /\ UNCHANGED running
       ELSE /\ running' =
                   [op |-> "deletePricingGroup", id |-> id,
                    lists |-> IdsOf(SelectSeq(priceLists,
                                              LAMBDA pl : pl.pricingGroupId = id)),
                    list |-> Absent, items |-> <<>>]
            /\ UNCHANGED last
    /\ UNCHANGED <<pricingVars, inventoryAdjustments, assignedNumbers, orderVars>>

\* deletePriceList(id), called on its own, up to the query of its items
deletePriceListCall(id) ==
    /\ running = Idle
    /\ running' =
           [op |-> "deletePriceList", id |-> id, lists |-> <<>>, list |-> id,
            items |-> IdsOf(SelectSeq(priceListItems,
                                      LAMBDA item : item.priceListId = id))]
    /\ UNCHANGED <<pricingVars, inventoryAdjustments, assignedNumbers, orderVars, last>>

\* a cascade that deletes the price list before its items
deleteListFirst ==
    /\ running # Idle
    /\ running.list # Absent
    /\ IF Has(priceLists, running.list)
       THEN /\ priceLists' = CollDelete(priceLists, running.list)
            /\ UNCHANGED <<priceListItems, running, last>>
       ELSE IF running.items # <<>>
       THEN /\ priceListItems' = CollDelete(priceListItems, Head(running.items))
            /\ running' = [running EXCEPT !.items = Tail(@)]
            /\ UNCHANGED <<priceLists, last>>
       ELSE /\ IF running.op = "deletePriceList"
               THEN /\ running' = Idle
                    /\ last' = [op |-> "deletePriceList", id |-> running.id,
                                threw |-> FALSE]
               ELSE /\ running' = [running EXCEPT !.list = Absent]
                    /\ UNCHANGED last
            /\ UNCHANGED <<priceLists, priceListItems>>
    /\ UNCHANGED <<pricingGroups, accounts, commodities, inventoryAdjustments,
                   assignedNumbers, orderVars>>

\* the next awaited call of deletePriceList(running.list): delete the next of
\* its items, or, when none is left, delete the price list and return
deletePriceListStep ==
    /\ running # Idle
    /\ running.list # Absent
    /\ IF running.items # <<>>
       THEN /\ priceListItems' = CollDelete(priceListItems, Head(running.items))
            /\ running' = [running EXCEPT !.items = Tail(@)]
            /\ UNCHANGED <<priceLists, last>>
       ELSE /\ priceLists' = CollDelete(priceLists, running.list)
            /\ IF running.op = "deletePriceList"
               THEN /\ running' = Idle
                    /\ last' = [op |-> "deletePriceList", id |-> running.id,
                                threw |-> FALSE]
               ELSE /\ running' = [running EXCEPT !.list = Absent]
                    /\ UNCHANGED last
            /\ UNCHANGED priceListItems
    /\ UNCHANGED <<pricingGroups, accounts, commodities, inventoryAdjustments,
                   assignedNumbers, orderVars>>

\* the next awaited call of deletePricingGroup between two price lists: call
\* deletePriceList for the next price list of the group, or, when none is
\* left, delete the group and return
deletePricingGroupStep ==
    /\ running # Idle
    /\ running.op = "deletePricingGroup"
    /\ running.list = Absent
    /\ IF running.lists # <<>>
       THEN /\ running' =
                   [running EXCEPT
                       !.lists = Tail(@),
                       !.list = Head(running.lists),
                       !.items = IdsOf(SelectSeq(priceListItems,
                                     LAMBDA item : item.priceListId = Head(running.lists)))]
            /\ UNCHANGED <<pricingGroups, last>>
       ELSE /\ pricingGroups' = CollDelete(pricingGroups, running.id)
            /\ running' = Idle
            /\ last' = [op |-> "deletePricingGroup", id |-> running.id, threw |-> FALSE]
    /\ UNCHANGED <<priceLists, priceListItems, accounts, commodities,
                   inventoryAdjustments, assignedNumbers, orderVars>>

----------------------------------------------------------------------------
(* SpecCascade: one deletePricingGroup or deletePriceList call on a store of *)
(* two pricing groups, up to MaxLists price lists and up to MaxItems items   *)
(* of these lists, and one account with any assignment.                      *)

CascadeLists ==
    Stores([pricingGroupId : {1, 2}, effectiveDate : {1}, expirationDate : {Absent},
            isActive : {TRUE}], MaxLists)

InitCascade ==
    /\ pricingGroups =
           <<[id |-> 1, direction |-> "buy", isDefault |-> TRUE, isActive |-> TRUE],
             [id |-> 2, direction |-> "sell", isDefault |-> FALSE, isActive |-> TRUE]>>
    /\ priceLists \in CascadeLists
    /\ priceListItems \in
           Stores([priceListId : Ids(priceLists), commodityId : CommodityIds,
                   price : {1}], MaxItems)
    /\ \E buy, sell \in {Absent, 1, 2} :
           accounts = <<[id |-> 1, buyPricingGroupId |-> buy,
                         sellPricingGroupId |-> sell]>>
    /\ commodities = <<[id |-> 1, isActive |-> TRUE], [id |-> 2, isActive |-> TRUE]>>
    /\ inventoryAdjustments = <<>>
    /\ assignedNumbers = <<>>
    /\ running = Idle
    /\ purchaseOrders = <<>>
    /\ salesOrders = <<>>
    /\ loads = <<>>
    /\ brokeredOrders = <<>>
    /\ invoices = <<>>
    /\ last = [op |-> "none"]

NextCascade ==
    \/ \E id \in 1..3 : last.op = "none" /\ deletePricingGroupCall(id)
    \/ \E id \in 1..(MaxLists + 1) : last.op = "none" /\ deletePriceListCall(id)
    \/ deletePriceListStep
    \/ deletePricingGroupStep

SpecCascade == InitCascade /\ [][NextCascade]_vars

\* C13: deletePricingGroup(id) throws whenever an account has
\* buyPricingGroupId = id or sellPricingGroupId = id, and then the pricing
\* group, its price lists and their items (the whole pricing store) are left
\* as they were.
DeleteReferencedGroupThrows ==
    [][\A id \in 1..3 :
          /\ running = Idle
          /\ \/ running'.op = "deletePricingGroup" /\ running'.id = id
             \/ last' # last /\ last'.op = "deletePricingGroup" /\ last'.id = id
          /\ \E a \in Elems(accounts) :
                 a.buyPricingGroupId = id \/ a.sellPricingGroupId = id
          => /\ last'.op = "deletePricingGroup"
             /\ last'.threw
             /\ running' = Idle
             /\ UNCHANGED pricingVars]_vars

\* deletePricingGroup has thrown for a group that owns a price list with an
\* item and that an account sells from, but does not buy from
DeleteReferencedGroupThrowsWitness ==
    /\ last.op = "deletePricingGroup"
    /\ last.threw
    /\ Has(pricingGroups, last.id)
    /\ \E a \in Elems(accounts) :
           a.sellPricingGroupId = last.id /\ a.buyPricingGroupId # last.id
    /\ \E l \in Elems(priceLists), item \in Elems(priceListItems) :
           l.pricingGroupId = last.id /\ item.priceListId = l.id

\* C14: cascade deletion leaves no orphans.  After deletePriceList(id) no item
\* with priceListId = id remains; after a deletePricingGroup(id) that did not
\* throw, no price list of the group and no item of such a list remains; and
\* in every state in between every item's price list and every price list's
\* group are still stored: items go before their list, lists before their
\* group.
CascadeLeavesNoOrphans ==
    /\ \A item \in Elems(priceListItems) : Has(priceLists, item.priceListId)
    /\ \A l \in Elems(priceLists) : Has(pricingGroups, l.pricingGroupId)
    /\ last.op = "deletePriceList" =>
           /\ ~Has(priceLists, last.id)
           /\ \A item \in Elems(priceListItems) : item.priceListId # last.id
    /\ last.op = "deletePricingGroup" /\ ~last.threw =>
           /\ ~Has(pricingGroups, last.id)
           /\ \A l \in Elems(priceLists) : l.pricingGroupId # last.id

\* deletePricingGroup is in the middle of a group of two price lists: the
\* first price list and its items are gone, the second still holds an item
CascadeLeavesNoOrphansWitness ==
    /\ running # Idle
    /\ running.op = "deletePricingGroup"
    /\ running.list = Absent
    /\ Len(running.lists) = 1
    /\ Len(priceLists) = 1
    /\ priceLists[1].pricingGroupId = running.id
    /\ Len(priceListItems) = 1
    /\ priceListItems[1].priceListId = priceLists[1].id

----------------------------------------------------------------------------
(* Migration from legacy pricing *)
(*                                                                           *)
(* A legacy price list item is [commodityId, buyPrice, sellPrice,            *)
(* effectiveDate].  The errors of a run are held as the commodityIds their   *)
(* messages name, in order.                                                  *)

Min(S) == CHOOSE x \in S : \A y \in S : x <= y

\* the price list items after createPriceListItem(data), and whether it threw
CreatedItems(lists, items, data) ==
    IF ~validateCommodityUniqueness(lists, items, data.priceListId,
                                    data.commodityId, Absent).valid
    THEN [threw |-> TRUE, items |-> items]
    ELSE [threw |-> FALSE,
          items |-> CollCreate(items,
              [id |-> FreshId(Ids(items)), priceListId |-> data.priceListId,
               commodityId |-> data.commodityId, price |-> data.price])]

\* a batch that stops at the first legacy item that fails
RECURSIVE MigrateUntilError(_, _, _, _, _)
MigrateUntilError(legacy, buyPriceList, sellPriceList, lists, acc) ==
    IF legacy = <<>> \/ acc.errors # <<>> THEN acc
    ELSE LET legacyItem == Head(legacy)
             buy == IF buyPriceList # Absent /\ legacyItem.buyPrice > 0
                    THEN CreatedItems(lists, acc.items,
                             [priceListId |-> buyPriceList,
                              commodityId |-> legacyItem.commodityId,
                              price |-> legacyItem.buyPrice])
                    ELSE [threw |-> FALSE, items |-> acc.items]
             sell == IF sellPriceList # Absent /\ legacyItem.sellPrice > 0
                     THEN CreatedItems(lists, buy.items,
                              [priceListId |-> sellPriceList,
                               commodityId |-> legacyItem.commodityId,
                               price |-> legacyItem.sellPrice])
                     ELSE [threw |-> FALSE, items |-> buy.items]
             next == IF buy.threw
                     THEN [acc EXCEPT !.errors = Append(@, legacyItem.commodityId)]
                     ELSE [items |-> sell.items,
                           migratedCount |-> acc.migratedCount
                               + (Len(sell.items) - Len(acc.items)),
                           errors |-> IF sell.threw
                                      THEN Append(acc.errors, legacyItem.commodityId)
                                      ELSE acc.errors]
         IN  MigrateUntilError(Tail(legacy), buyPriceList, sellPriceList, lists, next)

\* for (const legacyItem of legacyPriceList) { try { ... } catch { errors.push } }
\* acc is [items, migratedCount, errors]; an absent price list is null
RECURSIVE MigrateItems(_, _, _, _, _)
MigrateItems(legacy, buyPriceList, sellPriceList, lists, acc) ==
    IF legacy = <<>> THEN acc
    ELSE LET legacyItem == Head(legacy)
             tryBuy == buyPriceList # Absent /\ legacyItem.buyPrice > 0
             buy == IF tryBuy
                    THEN CreatedItems(lists, acc.items,
                             [priceListId |-> buyPriceList,
                              commodityId |-> legacyItem.commodityId,
                              price |-> legacyItem.buyPrice])
                    ELSE [threw |-> FALSE, items |-> acc.items]
             afterBuy == IF tryBuy /\ ~buy.threw
                         THEN acc.migratedCount + 1 ELSE acc.migratedCount
             trySell == ~buy.threw /\ sellPriceList # Absent /\ legacyItem.sellPrice > 0
             sell == IF trySell
                     THEN CreatedItems(lists, buy.items,
                              [priceListId |-> sellPriceList,
                               commodityId |-> legacyItem.commodityId,
                               price |-> legacyItem.sellPrice])
                     ELSE [threw |-> FALSE, items |-> buy.items]
             afterSell == IF trySell /\ ~sell.threw THEN afterBuy + 1 ELSE afterBuy
             next == [items |-> sell.items, migratedCount |-> afterSell,
                      errors |-> IF buy.threw \/ sell.threw
                                 THEN Append(acc.errors, legacyItem.commodityId)
                                 ELSE acc.errors]
         IN  MigrateItems(Tail(legacy), buyPriceList, sellPriceList, lists, next)

\* a migration that looks for existing price lists nowhere
ListsOfNoGroup(lists, pricingGroupId) == <<>>

\* getPriceListsByGroup(pricingGroupId)
getPriceListsByGroup(lists, pricingGroupId) ==
    SelectSeq(lists, LAMBDA pl : pl.pricingGroupId = pricingGroupId)

\* migrateFromLegacyPricing(legacyPriceList): the stores it leaves and the
\* result it returns
Migrated(legacyPriceList) ==
    IF Len(legacyPriceList) = 0
    THEN [groups |-> pricingGroups, lists |-> priceLists, items |-> priceListItems,
          result |-> [success |-> TRUE, migratedCount |-> 0, errors |-> <<>>]]
    ELSE
      LET refs == {l.pricingGroupId : l \in Elems(priceLists)}
                      \cup {a.buyPricingGroupId : a \in Elems(accounts)}
                      \cup {a.sellPricingGroupId : a \in Elems(accounts)}
          foundBuy == GetDefaultPricingGroup(pricingGroups, "buy")
          buyId == IF foundBuy # Absent THEN foundBuy
                   ELSE FreshId(Ids(pricingGroups) \cup refs)
          groups1 == IF foundBuy # Absent THEN pricingGroups
                     ELSE CreatedPricingGroups(pricingGroups, buyId,
                              [direction |-> "buy", isDefault |-> TRUE, isActive |-> TRUE])
          foundSell == GetDefaultPricingGroup(groups1, "sell")
          sellId == IF foundSell # Absent THEN foundSell
                    ELSE FreshId(Ids(groups1) \cup refs)
          groups2 == IF foundSell # Absent THEN groups1
                     ELSE CreatedPricingGroups(groups1, sellId,
                              [direction |-> "sell", isDefault |-> TRUE, isActive |-> TRUE])
          earliestDate == Min({legacyPriceList[i].effectiveDate :
                                  i \in 1..Len(legacyPriceList)})
          shouldMigrateBuy == Len(getPriceListsByGroup(priceLists, buyId)) = 0
          shouldMigrateSell == Len(getPriceListsByGroup(priceLists, sellId)) = 0
          itemRefs == {i.priceListId : i \in Elems(priceListItems)}
          buyPriceList == IF shouldMigrateBuy
                          THEN FreshId(Ids(priceLists) \cup itemRefs) ELSE Absent
          lists1 == IF shouldMigrateBuy
                    THEN CollCreate(priceLists,
                             [id |-> buyPriceList, pricingGroupId |-> buyId,
                              effectiveDate |-> earliestDate,
                              expirationDate |-> Absent, isActive |-> TRUE])
                    ELSE priceLists
          sellPriceList == IF shouldMigrateSell
                           THEN FreshId(Ids(lists1) \cup itemRefs) ELSE Absent
          lists2 == IF shouldMigrateSell
                    THEN CollCreate(lists1,
                             [id |-> sellPriceList, pricingGroupId |-> sellId,
                              effectiveDate |-> earliestDate,
                              expirationDate |-> Absent, isActive |-> TRUE])
                    ELSE lists1
          done == MigrateItems(legacyPriceList, buyPriceList, sellPriceList, lists2,
                      [items |-> priceListItems, migratedCount |-> 0, errors |-> <<>>])
      IN  [groups |-> groups2, lists |-> lists2, items |-> done.items,
           result |-> [success |-> Len(done.errors) = 0,
                       migratedCount |-> done.migratedCount,
                       errors |-> done.errors]]

\* run is the number of this run over the same legacy list
migrateFromLegacyPricing(legacyPriceList, run) ==
    LET migrated == Migrated(legacyPriceList)
    IN  /\ pricingGroups' = migrated.groups
        /\ priceLists' = migrated.lists
        /\ priceListItems' = migrated.items
        /\ last' = [op |-> "migrateFromLegacyPricing", legacy |-> legacyPriceList,
                    run |-> run, result |-> migrated.result]
        /\ UNCHANGED <<accounts, commodities, inventoryAdjustments, assignedNumbers,
                       running, orderVars>>

----------------------------------------------------------------------------
(* SpecMigrate: migrateFromLegacyPricing run once, then once more with the   *)
(* same legacy list, on a store of at most one pricing group, at most one    *)
(* price list and at most one item.                                          *)

MaxLegacy == 3

\* the legacy items: any commodity with a buy price, a sell price or both on
\* the first day, one item without prices, and one item of the last day
LegacyItems ==
    {[commodityId |-> c, buyPrice |-> p[1], sellPrice |-> p[2], effectiveDate |-> 1] :
        c \in CommodityIds, p \in {<<1, 0>>, <<0, 2>>, <<1, 2>>}}
    \cup {[commodityId |-> 1, buyPrice |-> 0, sellPrice |-> 0, effectiveDate |-> 1],
          [commodityId |-> 2, buyPrice |-> 1, sellPrice |-> 0,
           effectiveDate |-> MaxDate]}

LegacyLists == UNION {[1..k -> LegacyItems] : k \in 0..MaxLegacy}

InitMigrate ==
    /\ pricingGroups \in
           Stores([direction : Directions, isDefault : BOOLEAN, isActive : {TRUE}], 1)
    /\ priceLists \in
           Stores([pricingGroupId : Ids(pricingGroups), effectiveDate : {1},
                   expirationDate : {Absent}, isActive : {TRUE}], 1)
    /\ priceListItems \in
           Stores([priceListId : Ids(priceLists), commodityId : {1}, price : {1}], 1)
    /\ accounts = <<>>
    /\ commodities = <<[id |-> 1, isActive |-> TRUE], [id |-> 2, isActive |-> TRUE]>>
    /\ inventoryAdjustments = <<>>
    /\ assignedNumbers = <<>>
    /\ running = [op |-> "none"]
    /\ purchaseOrders = <<>>
    /\ salesOrders = <<>>
    /\ loads = <<>>
    /\ brokeredOrders = <<>>
    /\ invoices = <<>>
    /\ last = [op |-> "none"]

NextMigrate ==
    \/ \E legacyPriceList \in LegacyLists :
           last.op = "none" /\ migrateFromLegacyPricing(legacyPriceList, 1)
    \/ /\ last.op = "migrateFromLegacyPricing"
       /\ last.run = 1
       /\ migrateFromLegacyPricing(last.legacy, 2)

SpecMigrate == InitMigrate /\ [][NextMigrate]_vars

\* C15: migrateFromLegacyPricing is idempotent: a second run with the same
\* legacy list after a completed first run creates no pricing group, price
\* list or price list item (the pricing store is unchanged) and reports
\* migratedCount = 0.
MigrationIdempotent ==
    [][last'.op = "migrateFromLegacyPricing" /\ last'.run = 2 =>
          /\ UNCHANGED pricingVars
          /\ last'.result.migratedCount = 0]_vars

\* a second run has ended after a first run that created both default groups,
\* both price lists and at least two items
MigrationIdempotentWitness ==
    /\ last.op = "migrateFromLegacyPricing"
    /\ last.run = 2
    /\ Len(last.legacy) > 0
    /\ Len(pricingGroups) >= 2
    /\ Len(priceLists) >= 2
    /\ Len(priceListItems) >= 2
    /\ \E l \in Elems(priceLists), item \in Elems(priceListItems) :
           /\ item.priceListId = l.id
           /\ l.pricingGroupId = GetDefaultPricingGroup(pricingGroups, "sell")

\* the price list a run has migrated a direction into: the price list of the
\* direction's default group, when that group had no price list before the run
MigratedInto(direction) ==
    LET group == GetDefaultPricingGroup(pricingGroups', direction)
    IN  IF \E l \in Elems(priceLists) : l.pricingGroupId = group
        THEN {}
        ELSE {l.id : l \in {x \in Elems(priceLists') : x.pricingGroupId = group}}

HoldsCommodity(items, listIds, commodityId) ==
    \E item \in Elems(items) :
        item.priceListId \in listIds /\ item.commodityId = commodityId

\* C16: a legacy item whose price-item creation fails (a second legacy entry
\* for a commodity already migrated into the same list) adds an entry to
\* errors and does not stop the migration of the remaining legacy items;
\* success is true iff errors is empty; migratedCount is the number of price
\* list items the run added to the store.
MigrationCollectsErrors ==
    [][last'.op = "migrateFromLegacyPricing" =>
          LET legacy == last'.legacy
              result == last'.result
              named == {result.errors[i] : i \in 1..Len(result.errors)}
              buyFails(k) ==
                  /\ MigratedInto("buy") # {}
                  /\ legacy[k].buyPrice > 0
                  /\ \E j \in 1..(k - 1) :
                         /\ legacy[j].commodityId = legacy[k].commodityId
                         /\ legacy[j].buyPrice > 0
              sellFails(k) ==
                  /\ MigratedInto("sell") # {}
                  /\ legacy[k].sellPrice > 0
                  /\ \E j \in 1..(k - 1) :
                         /\ legacy[j].commodityId = legacy[k].commodityId
                         /\ legacy[j].sellPrice > 0
          IN  /\ result.success = (result.errors = <<>>)
              /\ result.migratedCount = Len(priceListItems') - Len(priceListItems)
              /\ SubSeq(priceListItems', 1, Len(priceListItems)) = priceListItems
              /\ \A k \in 1..Len(legacy) :
                     /\ buyFails(k) \/ sellFails(k) => legacy[k].commodityId \in named
                     /\ MigratedInto("buy") # {} /\ legacy[k].buyPrice > 0 =>
                            HoldsCommodity(priceListItems', MigratedInto("buy"),
                                           legacy[k].commodityId)
                     /\ MigratedInto("sell") # {} /\ legacy[k].sellPrice > 0
                            /\ ~buyFails(k) =>
                            HoldsCommodity(priceListItems', MigratedInto("sell"),
                                           legacy[k].commodityId)]_vars

\* a first run has ended with one error, for the second of two legacy entries
\* that name the same commodity, and with items migrated for the first entry
\* and for the third, which follows the failure
MigrationCollectsErrorsWitness ==
    /\ last.op = "migrateFromLegacyPricing"
    /\ last.run = 1
    /\ Len(last.legacy) = 3
    /\ last.legacy[1].commodityId = last.legacy[2].commodityId
    /\ last.legacy[3].commodityId # last.legacy[2].commodityId
    /\ last.result.errors = <<last.legacy[2].commodityId>>
    /\ ~last.result.success
    /\ last.result.migratedCount >= 2
    /\ \E item \in Elems(priceListItems) :
           item.commodityId = last.legacy[3].commodityId /\ item.id > 1

----------------------------------------------------------------------------
(* Setting a default pricing group, one awaited collection call at a time    *)
(*                                                                           *)
(* createPricingGroup, updatePricingGroup and setAsDefault await the query   *)
(* and each update of clearDefaultForDirection before they write the group.  *)
(* running holds the call in progress: its name, the group id, the data, the *)
(* group read at the start (existing), the default groups the query of       *)
(* clearDefaultForDirection returned and that are still to update (toClear)  *)
(* and the number of them updated so far (cleared).                          *)

\* a query that finds no default group to clear
NoDefaults(groups, direction) == <<>>

\* clearDefaultForDirection: pricingGroupsCollection.query(
\*     g => g.direction === direction && g.isDefault === true)
DefaultGroups(groups, direction) ==
    SelectSeq(groups, LAMBDA g : IsDefaultFor(g, direction))

NoGroup == [id |-> Absent]
OnlyDefault == [direction |-> <<>>, isDefault |-> <<TRUE>>, isActive |-> <<>>]

\* createPricingGroup(data), up to the query of clearDefaultForDirection
createPricingGroupCall(data) ==
    /\ running = Idle
    /\ running' = [op |-> "createPricingGroup", id |-> FreshId(GroupIdsInUse),
                   data |-> data, existing |-> NoGroup,
                   toClear |-> IF data.isDefault
                               THEN DefaultGroups(pricingGroups, data.direction)
                               ELSE <<>>,
                   cleared |-> 0]
    /\ UNCHANGED <<pricingVars, inventoryAdjustments, assignedNumbers, orderVars, last>>

\* the call's state after updatePricingGroup(id, data) has read the group
UpdateRunning(id, data) ==
    LET existing == GetById(pricingGroups, id)
    IN  [op |-> "updatePricingGroup", id |-> id, data |-> data, existing |-> existing,
         toClear |-> IF data.isDefault = <<TRUE>> /\ ~existing.isDefault
                     THEN DefaultGroups(pricingGroups, existing.direction)
                     ELSE <<>>,
         cleared |-> 0]

\* updatePricingGroup(id, data), up to the query of clearDefaultForDirection
updatePricingGroupCall(id, data) ==
    /\ running = Idle
    /\ IF ~Has(pricingGroups, id)
       THEN /\ last' = [op |-> "updatePricingGroup", id |-> id, found |-> FALSE]
            /\ UNCHANGED running
       ELSE /\ running' = UpdateRunning(id, data)
            /\ UNCHANGED last
    /\ UNCHANGED <<pricingVars, inventoryAdjustments, assignedNumbers, orderVars>>

\* setAsDefault(id), up to the query of clearDefaultForDirection
setAsDefaultCall(id) ==
    /\ running = Idle
    /\ IF ~Has(pricingGroups, id)
       THEN /\ last' = [op |-> "setAsDefault", id |-> id, found |-> FALSE]
            /\ UNCHANGED running
       ELSE /\ running' =
                   [op |-> "setAsDefault", id |-> id, data |-> OnlyDefault,
                    existing |-> GetById(pricingGroups, id),
                    toClear |-> DefaultGroups(pricingGroups,
                                              GetById(pricingGroups, id).direction),
                    cleared |-> 0]
            /\ UNCHANGED last
    /\ UNCHANGED <<pricingVars, inventoryAdjustments, assignedNumbers, orderVars>>

\* clearDefaultForDirection: the next update of the loop, which writes the
\* group as the query returned it, with isDefault false
clearDefaultStep ==
    /\ running # Idle
    /\ running.op \in {"createPricingGroup", "updatePricingGroup", "setAsDefault"}
    /\ running.toClear # <<>>
    /\ LET group == Head(running.toClear)
       IN  pricingGroups' = CollUpdate(pricingGroups, group.id,
                                       [group EXCEPT !.isDefault = FALSE])
    /\ running' = [running EXCEPT !.toClear = Tail(@), !.cleared = @ + 1]
    /\ UNCHANGED <<priceLists, priceListItems, accounts, commodities,
                   inventoryAdjustments, assignedNumbers, orderVars, last>>

\* after clearDefaultForDirection: createPricingGroup creates the group,
\* updatePricingGroup writes the merged group, and setAsDefault calls
\* updatePricingGroup(id, { isDefault: true }), which reads the group
writeGroupStep ==
    /\ running # Idle
    /\ running.toClear = <<>>
    /\ \/ /\ running.op = "createPricingGroup"
          /\ pricingGroups' = CollCreate(pricingGroups,
                 [id |-> running.id, direction |-> running.data.direction,
                  isDefault |-> running.data.isDefault,
                  isActive |-> running.data.isActive])
          /\ running' = Idle
          /\ last' = [op |-> "createPricingGroup", id |-> running.id, found |-> TRUE]
       \/ /\ running.op = "updatePricingGroup"
          /\ pricingGroups' = CollUpdate(pricingGroups, running.id,
                                         MergeGroup(running.existing, running.data))
          /\ running' = Idle
          /\ last' = [op |-> "updatePricingGroup", id |-> running.id, found |-> TRUE]
       \/ /\ running.op = "setAsDefault"
          /\ running' = UpdateRunning(running.id, OnlyDefault)
          /\ UNCHANGED <<pricingGroups, last>>
    /\ UNCHANGED <<priceLists, priceListItems, accounts, commodities,
                   inventoryAdjustments, assignedNumbers, orderVars>>

----------------------------------------------------------------------------
(* SpecDefaults: one createPricingGroup, updatePricingGroup(id, {isDefault:  *)
(* true}) or setAsDefault call, step by step, on a store of up to MaxGroups  *)
(* pricing groups with at most one default in each direction.  Every state   *)
(* is one a reader can observe.                                              *)

IsDefaultOf(i, direction) ==
    pricingGroups[i].direction = direction /\ pricingGroups[i].isDefault

InitDefaults ==
    /\ pricingGroups \in
           {groups \in Stores([direction : Directions, isDefault : BOOLEAN,
                               isActive : {TRUE}], MaxGroups) :
               \A i, j \in 1..Len(groups) :
                   /\ groups[i].isDefault
                   /\ groups[j].isDefault
                   /\ groups[i].direction = groups[j].direction
                   => i = j}
    /\ priceLists = <<>>
    /\ priceListItems = <<>>
    /\ accounts = <<>>
    /\ commodities = <<>>
    /\ inventoryAdjustments = <<>>
    /\ assignedNumbers = <<>>
    /\ running = [op |-> "none"]
    /\ purchaseOrders = <<>>
    /\ salesOrders = <<>>
    /\ loads = <<>>
    /\ brokeredOrders = <<>>
    /\ invoices = <<>>
    /\ last = [op |-> "none"]

NextDefaults ==
    \/ \E direction \in Directions, isDefault \in BOOLEAN :
           /\ last.op = "none"
           /\ createPricingGroupCall([direction |-> direction, isDefault |-> isDefault,
                                      isActive |-> TRUE])
    \/ \E id \in 1..(MaxGroups + 1) :
           last.op = "none" /\ updatePricingGroupCall(id, OnlyDefault)
    \/ \E id \in 1..(MaxGroups + 1) : last.op = "none" /\ setAsDefaultCall(id)
    \/ clearDefaultStep
    \/ writeGroupStep

SpecDefaults == InitDefaults /\ [][NextDefaults]_vars

\* C17: from a store with at most one default group per direction and with a
\* single writer, no state between the awaited steps of one
\* createPricingGroup(isDefault = true), updatePricingGroup(id, {isDefault:
\* true}) or setAsDefault(id) shows two groups of one direction with
\* isDefault = true; and once the call has returned, the group it named is
\* the default of its direction.
NoTwoDefaultsVisible ==
    /\ \A direction \in Directions, i, j \in 1..Len(pricingGroups) :
           IsDefaultOf(i, direction) /\ IsDefaultOf(j, direction) => i = j
    /\ /\ last.op \in {"updatePricingGroup", "setAsDefault"}
       /\ last.found
       => GetById(pricingGroups, last.id).isDefault

\* a reader sees no default in a direction: the call in progress has cleared
\* the default of another group and has not yet written its own
NoTwoDefaultsVisibleWitness ==
    /\ running # Idle
    /\ running.op \in {"createPricingGroup", "updatePricingGroup"}
    /\ running.cleared = 1
    /\ running.toClear = <<>>
    /\ \E g \in Elems(pricingGroups) : g.id # running.id
    /\ \A g \in Elems(pricingGroups) : ~g.isDefault

----------------------------------------------------------------------------
(* SpecFallback: getDefaultPricingGroup and getPrice on a store of up to two *)
(* pricing groups, active or not, each with one open-ended active price list *)
(* that prices commodity 1, and one account with no assignment.              *)

\* getDefaultPricingGroup(direction): the id of the group returned, or Absent
getDefaultPricingGroup(direction) ==
    /\ last' = [op |-> "getDefaultPricingGroup", direction |-> direction,
                result |-> GetDefaultPricingGroup(pricingGroups, direction)]
    /\ Unchanged

InitFallback ==
    /\ pricingGroups \in Stores(GroupData, 2)
    /\ priceLists = [i \in 1..Len(pricingGroups) |->
                        [id |-> i, pricingGroupId |-> i, effectiveDate |-> 1,
                         expirationDate |-> Absent, isActive |-> TRUE]]
    /\ priceListItems = [i \in 1..Len(pricingGroups) |->
                            [id |-> i, priceListId |-> i, commodityId |-> 1,
                             price |-> 1]]
    /\ accounts = <<[id |-> 1, buyPricingGroupId |-> Absent,
                     sellPricingGroupId |-> Absent]>>
    /\ commodities = <<[id |-> 1, isActive |-> TRUE]>>
    /\ inventoryAdjustments = <<>>
    /\ assignedNumbers = <<>>
    /\ running = [op |-> "none"]
    /\ purchaseOrders = <<>>
    /\ salesOrders = <<>>
    /\ loads = <<>>
    /\ brokeredOrders = <<>>
    /\ invoices = <<>>
    /\ last = [op |-> "none"]

NextFallback ==
    \/ \E direction \in Directions :
           last.op = "none" /\ getDefaultPricingGroup(direction)
    \/ \E direction \in Directions, date \in Dates :
           last.op = "none" /\ getPrice(1, 1, direction, date)

SpecFallback == InitFallback /\ [][NextFallback]_vars

ActiveDefaultIds(direction) ==
    {g.id : g \in {x \in Elems(pricingGroups) :
                      x.direction = direction /\ x.isDefault /\ x.isActive}}

\* C19: getDefaultPricingGroup(direction) returns a group of that direction
\* with isDefault = true and isActive = true when there is one and undefined
\* otherwise; it never returns an inactive group, so a price getPrice takes
\* from the default group is never one of a deactivated group.
DefaultIsActive ==
    /\ last.op = "getDefaultPricingGroup" =>
           IF ActiveDefaultIds(last.direction) = {}
           THEN last.result = Absent
           ELSE last.result \in ActiveDefaultIds(last.direction)
    /\ last.op = "getPrice" /\ last.result.found =>
           last.result.pricingGroupId \in ActiveDefaultIds(last.direction)

\* the same, on the stores whose default groups are all active
DefaultIsActiveAmongActive ==
    (\A g \in Elems(pricingGroups) : g.isDefault => g.isActive) => DefaultIsActive

----------------------------------------------------------------------------
(* updatePriceListItem on the stores of SpecLists *)

\* the item as updated would share its commodityId with another item of its
\* resulting price list, or of a price list of the same group whose dates
\* overlap it
WouldConflict(updated) ==
    \E other \in Elems(priceListItems) :
        /\ other.id # updated.id
        /\ other.commodityId = updated.commodityId
        /\ \/ other.priceListId = updated.priceListId
           \/ \E a, b \in Elems(priceLists) :
                  /\ a.id = other.priceListId
                  /\ b.id = updated.priceListId
                  /\ a.pricingGroupId = b.pricingGroupId
                  /\ RangesOverlap(a, b)

\* C20: updatePriceListItem(id, data) validates before it persists: it throws
\* and leaves the store unchanged whenever the item as updated, with its
\* resulting priceListId and commodityId, would share its commodityId with a
\* different item of the same price list or of a date-overlapping price list
\* of the same group (the item itself excluded); otherwise it persists the
\* merged item.
UpdateValidatesResultingItem ==
    [][\A id \in 1..MaxItems, data \in PartialItemInputs :
          /\ Has(priceListItems, id)
          /\ Given(data.priceListId) => Has(priceLists, data.priceListId[1])
          /\ last'.op = "updatePriceListItem"
          /\ updatePriceListItem(id, data)
          => LET updated == MergeItem(GetById(priceListItems, id), data)
             IN  IF WouldConflict(updated)
                 THEN last'.threw /\ UNCHANGED pricingVars
                 ELSE /\ ~last'.threw
                      /\ priceListItems' = CollUpdate(priceListItems, id, updated)]_vars

\* an update that changes the commodity and leaves the item in its price list
\* is validated
UpdateValidatesWithinList ==
    [][\A id \in 1..MaxItems, data \in PartialItemInputs :
          /\ Has(priceListItems, id)
          /\ data.priceListId = <<>>
          /\ Given(data.commodityId)
          /\ last'.op = "updatePriceListItem"
          /\ updatePriceListItem(id, data)
          => LET updated == MergeItem(GetById(priceListItems, id), data)
             IN  WouldConflict(updated) /\ updated # GetById(priceListItems, id)
                     => last'.threw /\ UNCHANGED pricingVars]_vars

----------------------------------------------------------------------------
(* The remaining queries and mutating operations of the two services *)

\* warnings that flag every position of exactly zero as 'low'
WarningsForEveryZero(locationId, today) ==
    {[commodityId |-> pos.commodityId, locationId |-> pos.locationId,
      warningType |-> IF pos.netPosition < 0 THEN "negative" ELSE "low",
      currentPosition |-> pos.currentInventory,
      projectedPosition |-> pos.netPosition,
      shortfallAmount |-> IF pos.netPosition < 0 THEN -pos.netPosition ELSE Absent] :
        pos \in {p \in getPositionsResult(locationId, today) : p.netPosition <= 0}}

\* getPositionWarnings(locationId?): a 'negative' warning for each position
\* below zero, a 'low' warning for each position of exactly zero with pending
\* outgoing
getPositionWarningsResult(locationId, today) ==
    {[commodityId |-> pos.commodityId, locationId |-> pos.locationId,
      warningType |-> IF pos.netPosition < 0 THEN "negative" ELSE "low",
      currentPosition |-> pos.currentInventory,
      projectedPosition |-> pos.netPosition,
      shortfallAmount |-> IF pos.netPosition < 0 THEN -pos.netPosition ELSE Absent] :
        pos \in {p \in getPositionsResult(locationId, today) :
                    \/ p.netPosition < 0
                    \/ p.netPosition = 0 /\ p.outgoing > 0}}

getPositionWarnings(locationId, today) ==
    /\ last' = [op |-> "getPositionWarnings", locationId |-> locationId,
                result |-> getPositionWarningsResult(locationId, today)]
    /\ Unchanged

\* the commodities with isActive, in stored order
ActiveCommodities == SelectSeq(commodities, LAMBDA c : c.isActive)

\* getPricesForAccount(accountId, direction, date): the price getPrice finds
\* for each active commodity
getPricesForAccountResult(accountId, direction, date) ==
    IF ~Has(accounts, accountId) THEN <<>>
    ELSE SelectSeq([i \in 1..Len(ActiveCommodities) |->
                       getPriceResult(accountId, ActiveCommodities[i].id, direction, date)],
                   LAMBDA price : price.found)

getPricesForAccount(accountId, direction, date) ==
    /\ last' = [op |-> "getPricesForAccount", accountId |-> accountId,
                direction |-> direction, date |-> date,
                result |-> getPricesForAccountResult(accountId, direction, date)]
    /\ Unchanged

\* getResolvedPricesForGroup(groupId, date): the price findPriceInGroup finds
\* for each active commodity
getResolvedPricesForGroupResult(groupId, date) ==
    IF ~Has(pricingGroups, groupId) THEN <<>>
    ELSE SelectSeq([i \in 1..Len(ActiveCommodities) |->
                       findPriceInGroup(groupId, ActiveCommodities[i].id, date)],
                   LAMBDA price : price.found)

getResolvedPricesForGroup(groupId, date) ==
    /\ last' = [op |-> "getResolvedPricesForGroup", groupId |-> groupId, date |-> date,
                result |-> getResolvedPricesForGroupResult(groupId, date)]
    /\ Unchanged

\* updateAdjustment(id, updates): the merged adjustment keeps its id and its
\* adjustmentNumber
UpdatedAdjustments(adjustments, id, updates) ==
    IF ~Has(adjustments, id) THEN adjustments
    ELSE LET existing == GetById(adjustments, id)
         IN  CollUpdate(adjustments, id,
                 [id |-> id,
                  adjustmentNumber |-> existing.adjustmentNumber,
                  commodityId |-> Merge(existing.commodityId, updates.commodityId),
                  locationId |-> Merge(existing.locationId, updates.locationId),
                  adjustmentType |-> Merge(existing.adjustmentType, updates.adjustmentType),
                  quantity |-> Merge(existing.quantity, updates.quantity)])

updateAdjustment(id, updates) ==
    /\ inventoryAdjustments' = UpdatedAdjustments(inventoryAdjustments, id, updates)
    /\ last' = [op |-> "updateAdjustment", id |-> id,
                result |-> Has(inventoryAdjustments, id)]
    /\ UNCHANGED <<pricingVars, assignedNumbers, running, orderVars>>

\* assignAccountToPricingGroup(accountId, groupId)
assignAccountToPricingGroup(accountId, groupId) ==
    /\ IF ~Has(accounts, accountId) \/ ~Has(pricingGroups, groupId)
       THEN /\ last' = [op |-> "assignAccountToPricingGroup", result |-> Absent]
            /\ UNCHANGED accounts
       ELSE LET account == GetById(accounts, accountId)
                group == GetById(pricingGroups, groupId)
            IN  /\ accounts' = CollUpdate(accounts, accountId,
                       IF group.direction = "buy"
                       THEN [account EXCEPT !.buyPricingGroupId = groupId]
                       ELSE [account EXCEPT !.sellPricingGroupId = groupId])
                /\ last' = [op |-> "assignAccountToPricingGroup", result |-> accountId]
    /\ UNCHANGED <<pricingGroups, priceLists, priceListItems, commodities,
                   inventoryAdjustments, assignedNumbers, running, orderVars>>

\* removeAccountFromPricingGroup(accountId, direction)
removeAccountFromPricingGroup(accountId, direction) ==
    /\ IF ~Has(accounts, accountId)
       THEN /\ last' = [op |-> "removeAccountFromPricingGroup", result |-> Absent]
            /\ UNCHANGED accounts
       ELSE LET account == GetById(accounts, accountId)
            IN  /\ accounts' = CollUpdate(accounts, accountId,
                       IF direction = "buy"
                       THEN [account EXCEPT !.buyPricingGroupId = Absent]
                       ELSE [account EXCEPT !.sellPricingGroupId = Absent])
                /\ last' = [op |-> "removeAccountFromPricingGroup", result |-> accountId]
    /\ UNCHANGED <<pricingGroups, priceLists, priceListItems, commodities,
                   inventoryAdjustments, assignedNumbers, running, orderVars>>

----------------------------------------------------------------------------
(* SpecFrame: one call of any query or mutating operation of the two        *)
(* services on a store that holds pricing data, at most one adjustment, at  *)
(* most one purchase order, at most one sales order and at most one load.   *)

InitFrame ==
    /\ pricingGroups =
           <<[id |-> 1, direction |-> "buy", isDefault |-> TRUE, isActive |-> TRUE],
             [id |-> 2, direction |-> "sell", isDefault |-> FALSE, isActive |-> TRUE]>>
    /\ priceLists =
           <<[id |-> 1, pricingGroupId |-> 1, effectiveDate |-> 1,
              expirationDate |-> Absent, isActive |-> TRUE],
             [id |-> 2, pricingGroupId |-> 2, effectiveDate |-> 1,
              expirationDate |-> Absent, isActive |-> TRUE]>>
    /\ priceListItems =
           <<[id |-> 1, priceListId |-> 1, commodityId |-> 1, price |-> 1],
             [id |-> 2, priceListId |-> 2, commodityId |-> 1, price |-> 2]>>
    /\ accounts = <<[id |-> 1, buyPricingGroupId |-> 1, sellPricingGroupId |-> Absent]>>
    /\ commodities = <<[id |-> 1, isActive |-> TRUE], [id |-> 2, isActive |-> FALSE]>>
    /\ inventoryAdjustments \in
           {<<>>} \cup {<<[id |-> 1, adjustmentNumber |-> AdjustmentNumber(1),
                           commodityId |-> 1, locationId |-> Absent,
                           adjustmentType |-> "other", quantity |-> quantity]>> :
                           quantity \in {-1, 2}}
    /\ purchaseOrders \in StoredPurchaseOrders
    /\ salesOrders \in
           {<<>>, <<SalesOrderOf(2, "open", Absent,
                                 [commodityId |-> 1, quantity |-> 2, done |-> Absent],
                                 MaxDate)>>}
    /\ loads \in StoredLoads
    /\ assignedNumbers = [i \in 1..Len(inventoryAdjustments) |->
                      ParseInt(inventoryAdjustments[i].adjustmentNumber)]
    /\ running = Idle
    /\ brokeredOrders = <<>>
    /\ invoices = <<>>
    /\ last = [op |-> "none"]

\* the updates given to updateAdjustment
AdjustmentUpdates ==
    [commodityId : {<<>>}, locationId : Opt({1}), adjustmentType : {<<>>},
     quantity : Opt({1}), adjustmentNumber : Opt({AdjustmentNumber(2)})]

\* the queries of inventoryService
InventoryQuery ==
    \/ \E commodityId \in {1, 3}, today \in Dates :
           getPosition(commodityId, Absent, today)
    \/ \E locationId \in {Absent, 1} : getPositions(locationId, 1)
    \/ \E startDate, endDate \in Dates : getMovements(1, Absent, startDate, endDate, 1)
    \/ \E zone \in Zones : getPositionTimeline(zone, 1, Absent, 1, MaxDate, 1)
    \/ \E requiredQuantity \in {0, MaxRequired}, byDate \in OptDates :
           checkAvailability(1, requiredQuantity, Absent, byDate, 1)
    \/ \E locationId \in {Absent, 1} : getPositionWarnings(locationId, 1)

\* the price-resolution queries of pricingService
PricingQuery ==
    \/ \E accountId \in {1, 2}, direction \in Directions, date \in Dates :
           getPrice(accountId, 1, direction, date)
    \/ \E accountId \in {1, 2}, direction \in Directions :
           getPricesForAccount(accountId, direction, 1)
    \/ \E groupId \in 1..3 : getResolvedPricesForGroup(groupId, 1)
    \/ \E direction \in Directions : getDefaultPricingGroup(direction)

\* the mutating operations of inventoryService
InventoryMutation ==
    \/ \E quantity \in {-1, 1} :
           createAdjustment([commodityId |-> 1, locationId |-> Absent,
                             adjustmentType |-> "other", quantity |-> quantity])
    \/ \E id \in {1, 2}, updates \in AdjustmentUpdates : updateAdjustment(id, updates)
    \/ \E id \in {1, 2} : deleteAdjustment(id)
    \/ \E newCount \in 0..MaxCount : setInventoryCount(1, newCount, Absent)

\* the mutating operations of pricingService that return after one call
PricingMutation ==
    \/ \E direction \in Directions, isDefault \in BOOLEAN :
           createPricingGroup([direction |-> direction, isDefault |-> isDefault,
                               isActive |-> TRUE])
    \/ \E id \in 1..3, isDefault \in Opt(BOOLEAN) :
           updatePricingGroup(id, [direction |-> <<>>, isDefault |-> isDefault,
                                   isActive |-> <<>>])
    \/ \E id \in 1..3 : setAsDefault(id)
    \/ \E data \in ListInputs : createPriceList(data)
    \/ \E id \in 1..3, data \in PartialListInputs : updatePriceList(id, data)
    \/ \E id \in 1..3 : deletePriceList(id)
    \/ \E data \in ItemInputs : createPriceListItem(data)
    \/ \E id \in 1..3, data \in PartialItemInputs : updatePriceListItem(id, data)
    \/ \E id \in 1..3 : deletePriceListItem(id)
    \/ \E accountId \in {1, 2}, groupId \in 1..3 :
           assignAccountToPricingGroup(accountId, groupId)
    \/ \E accountId \in {1, 2}, direction \in Directions :
           removeAccountFromPricingGroup(accountId, direction)
    \/ \E legacyPriceList \in {<<l>> : l \in LegacyItems} :
           migrateFromLegacyPricing(legacyPriceList, 1)

NextFrame ==
    \/ last.op = "none" /\ running = Idle /\ InventoryQuery
    \/ last.op = "none" /\ running = Idle /\ PricingQuery
    \/ last.op = "none" /\ running = Idle /\ InventoryMutation
    \/ last.op = "none" /\ running = Idle /\ PricingMutation
    \/ \E id \in 1..3 : last.op = "none" /\ deletePricingGroupCall(id)
    \/ deletePriceListStep
    \/ deletePricingGroupStep

SpecFrame == InitFrame /\ [][NextFrame]_vars

QueryOps ==
    {"getPosition", "getPositions", "getMovements", "getPositionTimeline",
     "checkAvailability", "getPositionWarnings", "getPrice", "getPricesForAccount",
     "getResolvedPricesForGroup"}

\* C18: the inventory and price-resolution queries (getPosition, getPositions,
\* getMovements, getPositionTimeline, checkAvailability, getPositionWarnings,
\* getPrice, getPricesForAccount, getResolvedPricesForGroup) leave every
\* collection unchanged, and no operation of inventoryService or
\* pricingService, the mutating ones included, changes a purchase order, a
\* sales order or a load.
QueriesReadOnly ==
    [][/\ last'.op \in QueryOps =>
              UNCHANGED <<pricingVars, inventoryAdjustments, orderVars>>
       /\ UNCHANGED orderVars]_vars

\* getPositionWarnings has returned a warning computed from a stored sales
\* order, on a store that also holds a purchase order and a load
QueriesReadOnlyWitness ==
    /\ last.op = "getPositionWarnings"
    /\ last.result # {}
    /\ purchaseOrders # <<>>
    /\ salesOrders # <<>>
    /\ loads # <<>>

----------------------------------------------------------------------------
(* SpecExpected: getMovements on a store of one open order, a purchase      *)
(* order or a sales order, with one pending line, any endDate and startDate, *)
(* and no load, one load or two loads linked to it, the first with any      *)
(* dates.                                                                   *)

LoadDates ==
    [scheduledPickupDate : OptDates, actualPickupDate : OptDates,
     scheduledDeliveryDate : OptDates, actualDeliveryDate : OptDates]

\* the loads linked to the order: none, one, or one followed by a second load
\* that holds every date
LinkedLoads(purchaseOrderId, salesOrderId) ==
    LET linked(id, dates) ==
            [id |-> id, purchaseOrderId |-> purchaseOrderId,
             salesOrderId |-> salesOrderId] @@ dates
        second == linked(2, [scheduledPickupDate |-> 1, actualPickupDate |-> 1,
                             scheduledDeliveryDate |-> 1, actualDeliveryDate |-> 1])
    IN  {<<>>} \cup {<<linked(1, d)>> : d \in LoadDates}
               \cup {<<linked(1, d), second>> : d \in LoadDates}

PendingLine == [commodityId |-> 1, quantity |-> 2, done |-> Absent]

InitExpected ==
    /\ pricingGroups = <<>>
    /\ priceLists = <<>>
    /\ priceListItems = <<>>
    /\ accounts = <<>>
    /\ commodities = <<[id |-> 1, isActive |-> TRUE]>>
    /\ inventoryAdjustments = <<>>
    /\ assignedNumbers = <<>>
    /\ running = Idle
    /\ \E startDate, endDate \in OptDates :
           \/ /\ purchaseOrders =
                     <<[PurchaseOrderOf(1, "open", Absent, PendingLine, endDate)
                           EXCEPT !.startDate = startDate]>>
              /\ salesOrders = <<>>
              /\ loads \in LinkedLoads(1, Absent)
           \/ /\ purchaseOrders = <<>>
              /\ salesOrders =
                     <<[SalesOrderOf(2, "open", Absent, PendingLine, endDate)
                           EXCEPT !.startDate = startDate]>>
              /\ loads \in LinkedLoads(Absent, 2)
    /\ brokeredOrders = <<>>
    /\ invoices = <<>>
    /\ last = [op |-> "none"]

NextExpected ==
    \E today \in Dates :
        last.op = "none" /\ getMovements(1, Absent, Absent, Absent, today)

SpecExpected == InitExpected /\ [][NextExpected]_vars

\* the dates of the pending movement of the store from the highest priority
\* to the lowest: the actual and the scheduled date of the first linked load
\* for the movement type, endDate and startDate of the order, today
DatesByPriority(today) ==
    LET incoming == purchaseOrders # <<>>
        order == IF incoming THEN purchaseOrders[1] ELSE salesOrders[1]
        actual == IF loads = <<>> THEN Absent
                  ELSE IF incoming THEN loads[1].actualDeliveryDate
                  ELSE loads[1].actualPickupDate
        scheduled == IF loads = <<>> THEN Absent
                     ELSE IF incoming THEN loads[1].scheduledDeliveryDate
                     ELSE loads[1].scheduledPickupDate
    IN  <<actual, scheduled, order.endDate, order.startDate, today>>

\* C21: the expected date of a pending movement is chosen by strict priority:
\* the actual date of the linked load for the movement type (delivery for
\* incoming, pickup for outgoing), else its scheduled date for that type, else
\* the endDate of the order, else its startDate, else today; a date of lower
\* priority is used only when every date of higher priority is absent.
ExpectedDatePriority ==
    [][\A today \in Dates :
          getMovements(1, Absent, Absent, Absent, today) =>
              /\ Len(last'.result) = 1
              /\ \E k \in 1..5 :
                     /\ DatesByPriority(today)[k] # Absent
                     /\ \A j \in 1..(k - 1) : DatesByPriority(today)[j] = Absent
                     /\ last'.result[1].expectedDate = DatesByPriority(today)[k]]_vars

\* a movement has taken the scheduled date of the first of two linked loads,
\* which has no actual date, although the order has another endDate and the
\* second load another actual date
ExpectedDatePriorityWitness ==
    /\ last.op = "getMovements"
    /\ Len(loads) = 2
    /\ Len(last.result) = 1
    /\ \E incoming \in BOOLEAN :
           LET order == IF incoming THEN purchaseOrders ELSE salesOrders
               actual == IF incoming THEN loads[1].actualDeliveryDate
                         ELSE loads[1].actualPickupDate
               scheduled == IF incoming THEN loads[1].scheduledDeliveryDate
                            ELSE loads[1].scheduledPickupDate
           IN  /\ order # <<>>
               /\ actual = Absent
               /\ scheduled = MaxDate
               /\ order[1].endDate = 1
               /\ last.result[1].expectedDate = scheduled

----------------------------------------------------------------------------
(* SpecIncoming: calculateIncoming, calculateOutgoing, getMovements and     *)
(* getPosition on a store of one or two purchase orders, or of one or two   *)
(* sales orders and at most one purchase order. The first order of its kind *)
(* has any status and facility and one or two lines, pending, fully         *)
(* received (shipped) or over-received; a second, when there is one, is     *)
(* open with one pending line.                                              *)

calculateIncomingCall(commodityId, locationId, byDate, today) ==
    /\ last' = [op |-> "calculateIncoming", commodityId |-> commodityId,
                locationId |-> locationId, byDate |-> byDate,
                result |-> calculateIncoming(commodityId, locationId, byDate, today)]
    /\ Unchanged

calculateOutgoingCall(commodityId, locationId, byDate, today) ==
    /\ last' = [op |-> "calculateOutgoing", commodityId |-> commodityId,
                locationId |-> locationId, byDate |-> byDate,
                result |-> calculateOutgoing(commodityId, locationId, byDate, today)]
    /\ Unchanged

LineStatuses == {"open", "closed", "voided"}

\* the lines of the first order: pending, partly done, fully done and
\* over-done lines of commodity 1, and a pending line of commodity 2
FirstLines ==
    {[commodityId |-> 1, quantity |-> q[1], done |-> q[2]] :
        q \in {<<2, Absent>>, <<2, 1>>, <<1, 1>>, <<1, 2>>}}
    \cup {[commodityId |-> 2, quantity |-> 2, done |-> Absent]}

\* an order of one or two lines
WithLines(order, lines, Line(_)) ==
    [order EXCEPT !.lineItems = [i \in 1..Len(lines) |-> Line(lines[i])]]

ReceivedLine(line) ==
    [commodityId |-> line.commodityId, quantity |-> line.quantity,
     receivedQuantity |-> line.done]

ShippedLine(line) ==
    [commodityId |-> line.commodityId, quantity |-> line.quantity,
     shippedQuantity |-> line.done]

LinesOfFirst == {<<a>> : a \in FirstLines} \cup {<<a, b>> : a, b \in FirstLines}

IncomingOrders ==
    LET first == {WithLines(PurchaseOrderOf(1, status, facilityId, PendingLine, endDate),
                            lines, ReceivedLine) :
                     status \in LineStatuses, facilityId \in {1, 2},
                     lines \in LinesOfFirst, endDate \in Dates}
        second == {PurchaseOrderOf(3, "open", 1, PendingLine, endDate) : endDate \in Dates}
    IN  {<<a>> : a \in first} \cup {<<a, b>> : a \in first, b \in second}

OutgoingOrders ==
    LET first == {WithLines(SalesOrderOf(2, status, facilityId, PendingLine, endDate),
                            lines, ShippedLine) :
                     status \in LineStatuses, facilityId \in {1, 2},
                     lines \in LinesOfFirst, endDate \in Dates}
        second == {SalesOrderOf(4, "open", 1, PendingLine, endDate) : endDate \in Dates}
    IN  {<<a>> : a \in first} \cup {<<a, b>> : a \in first, b \in second}

\* no load, or one load of the first order with an actual date on the first day
LoadsOfFirst ==
    {<<>>,
     <<[id |-> 1, purchaseOrderId |-> 1, salesOrderId |-> 2,
        scheduledPickupDate |-> MaxDate, actualPickupDate |-> 1,
        scheduledDeliveryDate |-> MaxDate, actualDeliveryDate |-> 1]>>}

InitIncoming ==
    /\ pricingGroups = <<>>
    /\ priceLists = <<>>
    /\ priceListItems = <<>>
    /\ accounts = <<>>
    /\ commodities = <<[id |-> 1, isActive |-> TRUE], [id |-> 2, isActive |-> TRUE]>>
    /\ inventoryAdjustments = <<>>
    /\ assignedNumbers = <<>>
    /\ running = Idle
    /\ \/ purchaseOrders \in IncomingOrders /\ salesOrders = <<>>
       \/ /\ purchaseOrders \in {<<>>, <<PurchaseOrderOf(3, "open", 1, PendingLine, 1)>>}
          /\ salesOrders \in OutgoingOrders
    /\ loads \in LoadsOfFirst
    /\ brokeredOrders = <<>>
    /\ invoices = <<>>
    /\ last = [op |-> "none"]

NextIncoming ==
    \/ \E locationId \in {Absent, 1}, byDate \in OptDates :
           last.op = "none" /\ calculateIncomingCall(1, locationId, byDate, 1)
    \/ \E locationId \in {Absent, 1}, byDate \in OptDates :
           last.op = "none" /\ calculateOutgoingCall(1, locationId, byDate, 1)
    \/ \E locationId \in {Absent, 1} :
           last.op = "none" /\ getMovements(1, locationId, Absent, Absent, 1)
    \/ \E locationId \in {Absent, 1} :
           last.op = "none" /\ getPosition(1, locationId, 1)

SpecIncoming == InitIncoming /\ [][NextIncoming]_vars

\* the quantities of the movements
QuantitiesOf(movements) == [i \in 1..Len(movements) |-> movements[i].quantity]

\* C22: the incoming total for (commodityId, locationId?, byDate?) is the sum,
\* over the purchase orders neither voided nor closed (of the facility
\* locationId when one is given) and over their lines of the commodity, of
\* quantity - receivedQuantity, counting only the lines where the difference
\* is > 0 and, when byDate is given, whose expected date is <= byDate; a
\* fully or over-received line contributes 0, never a negative amount, and
\* the total is the sum of the quantities of the emitted movements.
IncomingTotal ==
    last.op = "calculateIncoming" =>
        /\ last.result.total =
               PendingIncoming(last.commodityId, last.locationId, last.byDate)
        /\ last.result.total >= 0
        /\ last.result.total = SumSeq(QuantitiesOf(last.result.movements))

\* calculateIncoming has counted a pending line of an open purchase order that
\* also holds an over-received line of the commodity
IncomingTotalWitness ==
    /\ last.op = "calculateIncoming"
    /\ last.result.total > 0
    /\ last.byDate # Absent
    /\ purchaseOrders[1].status = "open"
    /\ Len(purchaseOrders[1].lineItems) = 2
    /\ \E i, j \in 1..2 :
           LET a == purchaseOrders[1].lineItems[i]
               b == purchaseOrders[1].lineItems[j]
           IN  /\ a.commodityId = 1 /\ a.quantity < a.receivedQuantity
               /\ b.commodityId = 1 /\ b.quantity > b.receivedQuantity
    /\ Len(last.result.movements) = 1

\* the magnitudes of the so_outgoing movements
OutgoingMagnitudes(movements) ==
    QuantitiesOf([i \in 1..Len(movements) |->
                     IF movements[i].type = "so_outgoing"
                     THEN [quantity |-> -movements[i].quantity]
                     ELSE [quantity |-> 0]])

SignedByType(movements) ==
    \A i \in 1..Len(movements) :
        /\ movements[i].type = "so_outgoing" => movements[i].quantity < 0
        /\ movements[i].type = "po_incoming" => movements[i].quantity > 0

\* C23: every synthesized so_outgoing movement has a strictly negative
\* quantity and every po_incoming movement a strictly positive quantity, while
\* the outgoing total returned (and Position.outgoing) is non-negative and is
\* the sum of the magnitudes of the outgoing movements.
MovementSigns ==
    /\ last.op = "calculateIncoming" =>
           /\ SignedByType(last.result.movements)
           /\ \A i \in 1..Len(last.result.movements) :
                  last.result.movements[i].type = "po_incoming"
    /\ last.op = "calculateOutgoing" =>
           /\ SignedByType(last.result.movements)
           /\ \A i \in 1..Len(last.result.movements) :
                  last.result.movements[i].type = "so_outgoing"
           /\ last.result.total >= 0
           /\ last.result.total = SumSeq(OutgoingMagnitudes(last.result.movements))
    /\ last.op = "getMovements" => SignedByType(last.result)
    /\ last.op = "getPosition" /\ last.result.found =>
           /\ last.result.outgoing >= 0
           /\ last.result.outgoing =
                  SumSeq(OutgoingMagnitudes(
                      getMovementsResult(last.commodityId, last.locationId,
                                         Absent, Absent, 1)))

\* calculateOutgoing has emitted two movements of different quantities for
\* two pending sales lines
MovementSignsWitness ==
    /\ last.op = "calculateOutgoing"
    /\ Len(last.result.movements) = 2
    /\ last.result.movements[1].quantity # last.result.movements[2].quantity
    /\ last.result.total = 3

----------------------------------------------------------------------------
(* SpecWarnings: getPositionWarnings on a store of three commodities, the   *)
(* third inactive, each with a ledger balance of -1, 0 or 2 at location 1,  *)
(* one open sales order with a pending line of 2 for any of them, and at    *)
(* most one open purchase order with a pending line of 2 for the first.     *)

WarnedCommodities == {1, 2, 3}

RECURSIVE LedgerOf(_, _)
\* one adjustment at location 1 for each commodity of ids with a balance
LedgerOf(balance, ids) ==
    IF ids = {} THEN <<>>
    ELSE LET c == CHOOSE c \in ids : \A d \in ids : c <= d
             rest == LedgerOf(balance, ids \ {c})
         IN  IF balance[c] = 0 THEN rest
             ELSE <<[id |-> c, adjustmentNumber |-> AdjustmentNumber(c),
                     commodityId |-> c, locationId |-> 1,
                     adjustmentType |-> "other", quantity |-> balance[c]]>> \o rest

RECURSIVE SalesLinesOf(_)
\* one pending line of 2 for each commodity of ids
SalesLinesOf(ids) ==
    IF ids = {} THEN <<>>
    ELSE LET c == CHOOSE c \in ids : \A d \in ids : c <= d
         IN  <<[commodityId |-> c, quantity |-> 2, shippedQuantity |-> Absent]>>
                 \o SalesLinesOf(ids \ {c})

InitWarnings ==
    /\ pricingGroups = <<>>
    /\ priceLists = <<>>
    /\ priceListItems = <<>>
    /\ accounts = <<>>
    /\ \E active \in BOOLEAN :
           commodities = <<[id |-> 1, isActive |-> TRUE], [id |-> 2, isActive |-> active],
                           [id |-> 3, isActive |-> FALSE]>>
    /\ \E balance \in [WarnedCommodities -> {-1, 0, 2}] :
           inventoryAdjustments = LedgerOf(balance, WarnedCommodities)
    /\ assignedNumbers = [i \in 1..Len(inventoryAdjustments) |->
                      ParseInt(inventoryAdjustments[i].adjustmentNumber)]
    /\ running = Idle
    /\ purchaseOrders \in {<<>>, <<PurchaseOrderOf(1, "open", 1, PendingLine, 1)>>}
    /\ \E sold \in SUBSET WarnedCommodities :
           salesOrders =
               IF sold = {} THEN <<>>
               ELSE <<[SalesOrderOf(2, "open", 1, PendingLine, 1)
                          EXCEPT !.lineItems = SalesLinesOf(sold)]>>
    /\ loads = <<>>
    /\ brokeredOrders = <<>>
    /\ invoices = <<>>
    /\ last = [op |-> "none"]

NextWarnings ==
    \E locationId \in {Absent, 1, 2} :
        last.op = "none" /\ getPositionWarnings(locationId, 1)

SpecWarnings == InitWarnings /\ [][NextWarnings]_vars

\* C24: getPositionWarnings(locationId?) returns exactly one warning for each
\* active commodity whose position has netPosition < 0 (type 'negative',
\* shortfallAmount = -netPosition) or has netPosition = 0 with outgoing > 0
\* (type 'low'), and no warning for any other commodity (inactive, positive
\* net position, or zero net position with no pending outgoing).
WarningsExact ==
    last.op = "getPositionWarnings" =>
        /\ \A w \in last.result : Has(commodities, w.commodityId)
        /\ \A c \in Elems(commodities) :
               LET outgoing == PendingOutgoing(c.id, last.locationId, Absent)
                   netPosition ==
                       LedgerTotal(inventoryAdjustments, c.id, last.locationId)
                           + PendingIncoming(c.id, last.locationId, Absent) - outgoing
                   warnings == {w \in last.result : w.commodityId = c.id}
               IN  IF c.isActive /\ netPosition < 0
                   THEN /\ Cardinality(warnings) = 1
                        /\ \A w \in warnings :
                               /\ w.warningType = "negative"
                               /\ w.shortfallAmount = -netPosition
                   ELSE IF c.isActive /\ netPosition = 0 /\ outgoing > 0
                   THEN /\ Cardinality(warnings) = 1
                        /\ \A w \in warnings : w.warningType = "low"
                   ELSE warnings = {}

\* getPositionWarnings has returned a 'negative' and a 'low' warning and none
\* for the inactive commodity, whose position is below zero
WarningsExactWitness ==
    /\ last.op = "getPositionWarnings"
    /\ {w.warningType : w \in last.result} = {"negative", "low"}
    /\ Cardinality(last.result) = 2
    /\ LedgerTotal(inventoryAdjustments, 3, last.locationId) < 0

----------------------------------------------------------------------------
(* brokeredOrderService: linking purchase and sales orders to a brokered    *)
(* order. An optional array (purchaseOrderIds, salesOrderIds) is <<>> when  *)
(* undefined and <<ids>> when it holds the array ids.                       *)

\* getLinkedPOIds(order): order.purchaseOrderIds, or the legacy single id
getLinkedPOIds(order) ==
    IF order.purchaseOrderIds # <<>> THEN order.purchaseOrderIds[1]
    ELSE IF order.purchaseOrderId # Absent THEN <<order.purchaseOrderId>>
    ELSE <<>>

\* getLinkedSOIds(order)
getLinkedSOIds(order) ==
    IF order.salesOrderIds # <<>> THEN order.salesOrderIds[1]
    ELSE IF order.salesOrderId # Absent THEN <<order.salesOrderId>>
    ELSE <<>>

Includes(ids, id) == \E i \in 1..Len(ids) : ids[i] = id

\* a pattern check that accepts any number of orders on both sides
validateAnyPattern(poCount, soCount) == [valid |-> TRUE]

\* validateLinkingPattern(poCount, soCount)
validateLinkingPattern(poCount, soCount) ==
    IF poCount <= 1 /\ soCount <= 1 THEN [valid |-> TRUE]
    ELSE IF poCount > 1 /\ soCount # 1 THEN [valid |-> FALSE]
    ELSE IF soCount > 1 /\ poCount # 1 THEN [valid |-> FALSE]
    ELSE [valid |-> TRUE]

\* validateAddingOrders(currentPOCount, currentSOCount, addingPOCount, addingSOCount)
validateAddingOrders(currentPOCount, currentSOCount, addingPOCount, addingSOCount) ==
    validateLinkingPattern(currentPOCount + addingPOCount,
                           currentSOCount + addingSOCount)

\* findBrokeredOrderForPO(poId): the id of the first brokered order that lists
\* poId, Absent when there is none
findBrokeredOrderForPO(poId) ==
    LET listing == SelectSeq(brokeredOrders, LAMBDA bo : Includes(getLinkedPOIds(bo), poId))
    IN  IF listing = <<>> THEN Absent ELSE listing[1].id

\* findBrokeredOrderForSO(soId)
findBrokeredOrderForSO(soId) ==
    LET listing == SelectSeq(brokeredOrders, LAMBDA bo : Includes(getLinkedSOIds(bo), soId))
    IN  IF listing = <<>> THEN Absent ELSE listing[1].id

\* a link check that looks at the brokeredOrderId of the order only, and not
\* at the brokered order it names
LinkedElsewhereNever(orders, linkedBO, brokeredOrderId, id) == ~Has(orders, id)

\* the checks of one id in the loop of linkPurchaseOrders / linkSalesOrders:
\* the order is missing, names another brokered order, or is listed by another
\* brokered order (linkedBO)
LinkedElsewhere(orders, linkedBO, brokeredOrderId, id) ==
    \/ ~Has(orders, id)
    \/ /\ GetById(orders, id).brokeredOrderId # Absent
       /\ GetById(orders, id).brokeredOrderId # brokeredOrderId
    \/ linkedBO # Absent /\ linkedBO # brokeredOrderId

\* the orders after each order of ids that exists has been given brokeredOrderId
WithBrokeredOrderId(orders, ids, brokeredOrderId) ==
    [i \in 1..Len(orders) |->
        IF Includes(ids, orders[i].id)
        THEN [orders[i] EXCEPT !.brokeredOrderId = brokeredOrderId]
        ELSE orders[i]]

\* the success of linkPurchaseOrders(brokeredOrderId, poIds)
linkPurchaseOrdersSucceeds(brokeredOrderId, poIds) ==
    /\ Has(brokeredOrders, brokeredOrderId)
    /\ \A i \in 1..Len(poIds) :
           ~LinkedElsewhere(purchaseOrders, findBrokeredOrderForPO(poIds[i]),
                            brokeredOrderId, poIds[i])
    /\ LET order == GetById(brokeredOrders, brokeredOrderId)
       IN  validateAddingOrders(Len(getLinkedPOIds(order)), Len(getLinkedSOIds(order)),
                                Len(poIds), 0).valid

\* the success of linkSalesOrders(brokeredOrderId, soIds)
linkSalesOrdersSucceeds(brokeredOrderId, soIds) ==
    /\ Has(brokeredOrders, brokeredOrderId)
    /\ \A i \in 1..Len(soIds) :
           ~LinkedElsewhere(salesOrders, findBrokeredOrderForSO(soIds[i]),
                            brokeredOrderId, soIds[i])
    /\ LET order == GetById(brokeredOrders, brokeredOrderId)
       IN  validateAddingOrders(Len(getLinkedPOIds(order)), Len(getLinkedSOIds(order)),
                                0, Len(soIds)).valid

linkVars == <<brokeredOrders, purchaseOrders, salesOrders>>

linkPurchaseOrders(brokeredOrderId, poIds) ==
    /\ IF ~linkPurchaseOrdersSucceeds(brokeredOrderId, poIds)
       THEN /\ last' = [op |-> "linkPurchaseOrders", success |-> FALSE, warning |-> FALSE]
            /\ UNCHANGED linkVars
       ELSE LET order == GetById(brokeredOrders, brokeredOrderId)
                newPOIds == getLinkedPOIds(order) \o poIds
            IN  /\ brokeredOrders' =
                       CollUpdate(brokeredOrders, brokeredOrderId,
                                  [order EXCEPT !.purchaseOrderIds = <<newPOIds>>])
                /\ purchaseOrders' =
                       WithBrokeredOrderId(purchaseOrders, poIds, brokeredOrderId)
                /\ last' = [op |-> "linkPurchaseOrders", success |-> TRUE,
                            warning |-> FALSE]
                /\ UNCHANGED salesOrders
    /\ UNCHANGED <<pricingVars, inventoryAdjustments, assignedNumbers, running,
                   loads, invoices>>

linkSalesOrders(brokeredOrderId, soIds) ==
    /\ IF ~linkSalesOrdersSucceeds(brokeredOrderId, soIds)
       THEN /\ last' = [op |-> "linkSalesOrders", success |-> FALSE, warning |-> FALSE]
            /\ UNCHANGED linkVars
       ELSE LET order == GetById(brokeredOrders, brokeredOrderId)
                newSOIds == getLinkedSOIds(order) \o soIds
            IN  /\ brokeredOrders' =
                       CollUpdate(brokeredOrders, brokeredOrderId,
                                  [order EXCEPT !.salesOrderIds = <<newSOIds>>])
                /\ salesOrders' =
                       WithBrokeredOrderId(salesOrders, soIds, brokeredOrderId)
                /\ last' = [op |-> "linkSalesOrders", success |-> TRUE,
                            warning |-> FALSE]
                /\ UNCHANGED purchaseOrders
    /\ UNCHANGED <<pricingVars, inventoryAdjustments, assignedNumbers, running,
                   loads, invoices>>

unlinkPurchaseOrder(brokeredOrderId, poId) ==
    /\ IF \/ ~Has(brokeredOrders, brokeredOrderId)
          \/ ~Includes(getLinkedPOIds(GetById(brokeredOrders, brokeredOrderId)), poId)
       THEN /\ last' = [op |-> "unlinkPurchaseOrder", success |-> FALSE,
                        warning |-> FALSE]
            /\ UNCHANGED linkVars
       ELSE LET order == GetById(brokeredOrders, brokeredOrderId)
                newPOIds == SelectSeq(getLinkedPOIds(order), LAMBDA id : id # poId)
                validation == validateLinkingPattern(Len(newPOIds),
                                                     Len(getLinkedSOIds(order)))
            IN  /\ brokeredOrders' =
                       CollUpdate(brokeredOrders, brokeredOrderId,
                                  [order EXCEPT !.purchaseOrderIds = <<newPOIds>>])
                /\ purchaseOrders' = WithBrokeredOrderId(purchaseOrders, <<poId>>, Absent)
                /\ last' = [op |-> "unlinkPurchaseOrder", success |-> TRUE,
                            warning |-> ~validation.valid]
                /\ UNCHANGED salesOrders
    /\ UNCHANGED <<pricingVars, inventoryAdjustments, assignedNumbers, running,
                   loads, invoices>>

unlinkSalesOrder(brokeredOrderId, soId) ==
    /\ IF \/ ~Has(brokeredOrders, brokeredOrderId)
          \/ ~Includes(getLinkedSOIds(GetById(brokeredOrders, brokeredOrderId)), soId)
       THEN /\ last' = [op |-> "unlinkSalesOrder", success |-> FALSE, warning |-> FALSE]
            /\ UNCHANGED linkVars
       ELSE LET order == GetById(brokeredOrders, brokeredOrderId)
                newSOIds == SelectSeq(getLinkedSOIds(order), LAMBDA id : id # soId)
                validation == validateLinkingPattern(Len(getLinkedPOIds(order)),
                                                     Len(newSOIds))
            IN  /\ brokeredOrders' =
                       CollUpdate(brokeredOrders, brokeredOrderId,
                                  [order EXCEPT !.salesOrderIds = <<newSOIds>>])
                /\ salesOrders' = WithBrokeredOrderId(salesOrders, <<soId>>, Absent)
                /\ last' = [op |-> "unlinkSalesOrder", success |-> TRUE,
                            warning |-> ~validation.valid]
                /\ UNCHANGED purchaseOrders
    /\ UNCHANGED <<pricingVars, inventoryAdjustments, assignedNumbers, running,
                   loads, invoices>>

\* getConstraintsForPO(order)
getConstraintsForPOResult(order) ==
    LET poCount == Len(getLinkedPOIds(order))
        soCount == Len(getLinkedSOIds(order))
    IN  IF soCount > 1
        THEN IF poCount >= 1 THEN [canAdd |-> FALSE, maxSelectable |-> Absent]
             ELSE [canAdd |-> TRUE, maxSelectable |-> 1]
        ELSE [canAdd |-> TRUE, maxSelectable |-> Absent]

\* getConstraintsForSO(order)
getConstraintsForSOResult(order) ==
    LET poCount == Len(getLinkedPOIds(order))
        soCount == Len(getLinkedSOIds(order))
    IN  IF poCount > 1
        THEN IF soCount >= 1 THEN [canAdd |-> FALSE, maxSelectable |-> Absent]
             ELSE [canAdd |-> TRUE, maxSelectable |-> 1]
        ELSE [canAdd |-> TRUE, maxSelectable |-> Absent]

\* getConstraintsForPO called with the stored brokered order of the id
getConstraintsForPO(brokeredOrderId) ==
    /\ Has(brokeredOrders, brokeredOrderId)
    /\ last' = [op |-> "getConstraintsForPO", id |-> brokeredOrderId,
                result |-> getConstraintsForPOResult(
                               GetById(brokeredOrders, brokeredOrderId))]
    /\ Unchanged

getConstraintsForSO(brokeredOrderId) ==
    /\ Has(brokeredOrders, brokeredOrderId)
    /\ last' = [op |-> "getConstraintsForSO", id |-> brokeredOrderId,
                result |-> getConstraintsForSOResult(
                               GetById(brokeredOrders, brokeredOrderId))]
    /\ Unchanged

----------------------------------------------------------------------------
(* SpecLinking: any sequence of linkPurchaseOrders, linkSalesOrders,        *)
(* unlinkPurchaseOrder, unlinkSalesOrder and of the two constraint helpers  *)
(* over two brokered orders with nothing linked (the first with empty      *)
(* arrays, the second without arrays), two purchase orders and two sales    *)
(* orders. A link call is made only while the list it extends     *)
(* stays within MaxLinked ids.                                              *)

MaxLinked == 2

LinkedOrderIds == {1, 2}

BrokeredOrderIds == {1, 2}

\* a brokered order with nothing linked: its arrays are both ids, which is
\* <<>> (undefined, a record of the legacy shape) or << <<>> >> (empty)
NothingLinked(id, ids) ==
    [id |-> id, purchaseOrderIds |-> ids, purchaseOrderId |-> Absent,
     salesOrderIds |-> ids, salesOrderId |-> Absent]

\* the ids given to a link call: one id, stored or not, or two stored ids
LinkIds ==
    {<<a>> : a \in LinkedOrderIds \cup {3}} \cup {<<a, b>> : a, b \in LinkedOrderIds}

WithinMaxLinked(linked, ids) == Len(linked) + Len(ids) <= MaxLinked

InitLinking ==
    /\ pricingGroups = <<>>
    /\ priceLists = <<>>
    /\ priceListItems = <<>>
    /\ accounts = <<>>
    /\ commodities = <<[id |-> 1, isActive |-> TRUE]>>
    /\ inventoryAdjustments = <<>>
    /\ assignedNumbers = <<>>
    /\ running = Idle
    /\ purchaseOrders =
           [i \in LinkedOrderIds |->
               [brokeredOrderId |-> Absent] @@ PurchaseOrderOf(i, "open", 1, PendingLine, 1)]
    /\ salesOrders =
           [i \in LinkedOrderIds |->
               [brokeredOrderId |-> Absent] @@ SalesOrderOf(i, "open", 1, PendingLine, 1)]
    /\ loads = <<>>
    /\ brokeredOrders = <<NothingLinked(1, << <<>> >>), NothingLinked(2, <<>>)>>
    /\ invoices = <<>>
    /\ last = [op |-> "none"]

NextLinking ==
    \/ \E brokeredOrderId \in BrokeredOrderIds, poIds \in LinkIds :
           /\ WithinMaxLinked(getLinkedPOIds(GetById(brokeredOrders, brokeredOrderId)),
                              poIds)
           /\ linkPurchaseOrders(brokeredOrderId, poIds)
    \/ \E brokeredOrderId \in BrokeredOrderIds, soIds \in LinkIds :
           /\ WithinMaxLinked(getLinkedSOIds(GetById(brokeredOrders, brokeredOrderId)),
                              soIds)
           /\ linkSalesOrders(brokeredOrderId, soIds)
    \/ \E brokeredOrderId \in 1..3, poId \in LinkedOrderIds :
           unlinkPurchaseOrder(brokeredOrderId, poId)
    \/ \E brokeredOrderId \in 1..3, soId \in LinkedOrderIds :
           unlinkSalesOrder(brokeredOrderId, soId)
    \/ \E brokeredOrderId \in BrokeredOrderIds : getConstraintsForPO(brokeredOrderId)
    \/ \E brokeredOrderId \in BrokeredOrderIds : getConstraintsForSO(brokeredOrderId)

SpecLinking == InitLinking /\ [][NextLinking]_vars

\* more than one purchase order and more than one sales order at once
ManyToMany(poIds, soIds) == Len(poIds) > 1 /\ Len(soIds) > 1

\* C25: from brokered orders with nothing linked, in every state reached by
\* linkPurchaseOrders, linkSalesOrders, unlinkPurchaseOrder and
\* unlinkSalesOrder a brokered order never has more than one linked purchase
\* order and more than one linked sales order at the same time (N:1 or 1:N,
\* never N:N), and a link call that would produce such a pattern returns
\* success = false and changes nothing.
NeverManyToMany ==
    /\ [](\A i \in 1..Len(brokeredOrders) :
              ~ManyToMany(getLinkedPOIds(brokeredOrders[i]),
                          getLinkedSOIds(brokeredOrders[i])))
    /\ [][\A brokeredOrderId \in BrokeredOrderIds, ids \in LinkIds :
             LET order == GetById(brokeredOrders, brokeredOrderId)
             IN  /\ ManyToMany(getLinkedPOIds(order) \o ids, getLinkedSOIds(order))
                        /\ linkPurchaseOrders(brokeredOrderId, ids)
                     => ~last'.success /\ UNCHANGED linkVars
                 /\ ManyToMany(getLinkedPOIds(order), getLinkedSOIds(order) \o ids)
                        /\ linkSalesOrders(brokeredOrderId, ids)
                     => ~last'.success /\ UNCHANGED linkVars]_vars

\* a link call has been refused on a brokered order that holds one purchase
\* order and two sales orders, none of them linked elsewhere
NeverManyToManyWitness ==
    /\ last.op = "linkPurchaseOrders"
    /\ ~last.success
    /\ \E i \in 1..Len(brokeredOrders) :
           /\ Len(getLinkedPOIds(brokeredOrders[i])) = 1
           /\ Len(getLinkedSOIds(brokeredOrders[i])) = 2
    /\ \E i \in 1..Len(purchaseOrders) :
           /\ purchaseOrders[i].brokeredOrderId = Absent
           /\ findBrokeredOrderForPO(purchaseOrders[i].id) = Absent

\* the ids of the brokered orders that list the id among ids(bo)
ListedBy(ids(_), id) ==
    {brokeredOrders[i].id : i \in {j \in 1..Len(brokeredOrders) :
                                      Includes(ids(brokeredOrders[j]), id)}}

\* an order names the brokered order that lists it, and no other lists it
SidesAgree(orders, ids(_)) ==
    \A i \in 1..Len(orders) :
        /\ Cardinality(ListedBy(ids, orders[i].id)) <= 1
        /\ \A j \in 1..Len(brokeredOrders) :
               orders[i].brokeredOrderId = brokeredOrders[j].id
                   <=> Includes(ids(brokeredOrders[j]), orders[i].id)

\* C26: after any sequence of linkPurchaseOrders, linkSalesOrders,
\* unlinkPurchaseOrder and unlinkSalesOrder calls over several brokered orders
\* (starting with nothing linked), every purchase order and every sales order
\* is linked to at most one brokered order, and the two sides agree: the
\* brokeredOrderId of an order is B exactly when the purchaseOrderIds or
\* salesOrderIds of B contain the id of the order.
LinksAgree ==
    /\ SidesAgree(purchaseOrders, getLinkedPOIds)
    /\ SidesAgree(salesOrders, getLinkedSOIds)

\* a link call has been refused while each brokered order holds a purchase
\* order, and one of them a sales order too
LinksAgreeWitness ==
    /\ last.op \in {"linkPurchaseOrders", "linkSalesOrders"}
    /\ ~last.success
    /\ \A i \in 1..Len(brokeredOrders) : Len(getLinkedPOIds(brokeredOrders[i])) = 1
    /\ \E i \in 1..Len(brokeredOrders) : Len(getLinkedSOIds(brokeredOrders[i])) = 1
    /\ \A i \in 1..Len(purchaseOrders) : purchaseOrders[i].brokeredOrderId # Absent

\* C27: the constraint helpers agree with the link operations: for every
\* brokered order state, getConstraintsForPO(order).canAdd is true exactly
\* when linkPurchaseOrders of one more existing purchase order that is linked
\* to no brokered order would succeed, and getConstraintsForSO(order).canAdd
\* is true exactly when linkSalesOrders of one such sales order would succeed.
ConstraintsAgreeWithLinks ==
    /\ last.op = "getConstraintsForPO" =>
           \A i \in 1..Len(purchaseOrders) :
               /\ purchaseOrders[i].brokeredOrderId = Absent
               /\ findBrokeredOrderForPO(purchaseOrders[i].id) = Absent
               => (last.result.canAdd
                       <=> linkPurchaseOrdersSucceeds(last.id, <<purchaseOrders[i].id>>))
    /\ last.op = "getConstraintsForSO" =>
           \A i \in 1..Len(salesOrders) :
               /\ salesOrders[i].brokeredOrderId = Absent
               /\ findBrokeredOrderForSO(salesOrders[i].id) = Absent
               => (last.result.canAdd
                       <=> linkSalesOrdersSucceeds(last.id, <<salesOrders[i].id>>))

\* the helpers and the link operations agree on when an order cannot be added
CannotAddIsRefused ==
    /\ last.op = "getConstraintsForPO" /\ ~last.result.canAdd =>
           \A i \in 1..Len(purchaseOrders) :
               ~linkPurchaseOrdersSucceeds(last.id, <<purchaseOrders[i].id>>)
    /\ last.op = "getConstraintsForSO" /\ ~last.result.canAdd =>
           \A i \in 1..Len(salesOrders) :
               ~linkSalesOrdersSucceeds(last.id, <<salesOrders[i].id>>)

----------------------------------------------------------------------------
(* invoiceService: payments of an invoice. A payment is [id, amount]; an    *)
(* invoice holds total, payments, paidAmount, balanceDue, status, paidDate. *)

Amounts(payments) == [i \in 1..Len(payments) |-> payments[i].amount]

PaymentIds(invs) ==
    UNION {{invs[i].payments[j].id : j \in 1..Len(invs[i].payments)} :
              i \in 1..Len(invs)}

\* removing a payment without recalculating the invoice
VoidedWithoutRecalculation(invs, paymentId) ==
    [i \in 1..Len(invs) |->
        [invs[i] EXCEPT !.payments = SelectSeq(@, LAMBDA p : p.id # paymentId)]]

\* the invoices after addPayment(invoiceId, paymentData)
AddedPayment(invs, invoiceId, amount, paymentDate) ==
    IF ~Has(invs, invoiceId) THEN invs
    ELSE LET invoice == GetById(invs, invoiceId)
             newPayment == [id |-> FreshId(PaymentIds(invs)), amount |-> amount]
             payments == Append(invoice.payments, newPayment)
             paidAmount == SumSeq(Amounts(payments))
             balanceDue == invoice.total - paidAmount
             status == IF balanceDue <= 0 THEN "paid"
                       ELSE IF paidAmount > 0 THEN "partial"
                       ELSE invoice.status
         IN  CollUpdate(invs, invoiceId,
                 [invoice EXCEPT !.payments = payments,
                                 !.paidAmount = paidAmount,
                                 !.balanceDue = balanceDue,
                                 !.status = status,
                                 !.paidDate = IF status = "paid" THEN paymentDate
                                              ELSE Absent])

RECURSIVE BatchPaid(_, _, _)
\* the invoices after addBatchPayment(invoiceIds, paymentData): each invoice
\* with a balance due is paid in full, one after the other
BatchPaid(invs, invoiceIds, paymentDate) ==
    IF invoiceIds = <<>> THEN invs
    ELSE LET invoiceId == Head(invoiceIds)
         IN  IF ~Has(invs, invoiceId) \/ GetById(invs, invoiceId).balanceDue <= 0
             THEN BatchPaid(invs, Tail(invoiceIds), paymentDate)
             ELSE BatchPaid(AddedPayment(invs, invoiceId,
                                         GetById(invs, invoiceId).balanceDue, paymentDate),
                            Tail(invoiceIds), paymentDate)

\* the invoices after voidPayment(paymentId): the payment is removed from the
\* first invoice that holds it
VoidedPayment(invs, paymentId) ==
    LET holding == {i \in 1..Len(invs) :
                       \E j \in 1..Len(invs[i].payments) :
                           invs[i].payments[j].id = paymentId}
    IN  IF holding = {} THEN invs
        ELSE LET i == CHOOSE i \in holding : \A k \in holding : i <= k
                 invoice == invs[i]
                 paymentIndex == CHOOSE j \in 1..Len(invoice.payments) :
                                     /\ invoice.payments[j].id = paymentId
                                     /\ \A k \in 1..(j - 1) :
                                            invoice.payments[k].id # paymentId
                 updatedPayments == RemoveAt(invoice.payments, paymentIndex)
                 paidAmount == SumSeq(Amounts(updatedPayments))
                 balanceDue == invoice.total - paidAmount
                 status == IF balanceDue = invoice.total
                           THEN IF invoice.status \in {"paid", "partial"} THEN "sent"
                                ELSE invoice.status
                           ELSE IF balanceDue > 0 /\ paidAmount > 0 THEN "partial"
                           ELSE IF balanceDue <= 0 THEN "paid"
                           ELSE invoice.status
             IN  CollUpdate(invs, invoice.id,
                     [invoice EXCEPT !.payments = updatedPayments,
                                     !.paidAmount = paidAmount,
                                     !.balanceDue = balanceDue,
                                     !.status = status,
                                     !.paidDate = IF status = "paid" THEN invoice.paidDate
                                                  ELSE Absent])

addPayment(invoiceId, amount, paymentDate) ==
    /\ invoices' = AddedPayment(invoices, invoiceId, amount, paymentDate)
    /\ last' = [op |-> "addPayment", result |-> Has(invoices, invoiceId)]
    /\ UNCHANGED <<pricingVars, inventoryAdjustments, assignedNumbers, running,
                   purchaseOrders, salesOrders, loads, brokeredOrders>>

addBatchPayment(invoiceIds, paymentDate) ==
    /\ invoices' = BatchPaid(invoices, invoiceIds, paymentDate)
    /\ last' = [op |-> "addBatchPayment", result |-> invoices' # invoices]
    /\ UNCHANGED <<pricingVars, inventoryAdjustments, assignedNumbers, running,
                   purchaseOrders, salesOrders, loads, brokeredOrders>>

voidPayment(paymentId) ==
    /\ invoices' = VoidedPayment(invoices, paymentId)
    /\ last' = [op |-> "voidPayment", result |-> paymentId \in PaymentIds(invoices)]
    /\ UNCHANGED <<pricingVars, inventoryAdjustments, assignedNumbers, running,
                   purchaseOrders, salesOrders, loads, brokeredOrders>>

----------------------------------------------------------------------------
(* SpecPayments: any sequence of addPayment, addBatchPayment and            *)
(* voidPayment on two invoices created without payments, of totals 2 and 3, *)
(* with up to MaxPayments payments on an invoice.                           *)

MaxPayments == 2

PaymentAmounts == {1, 2}

\* an invoice as created: nothing paid, the whole total due
CreatedInvoice(id, total, status) ==
    [id |-> id, total |-> total, payments |-> <<>>, paidAmount |-> 0,
     balanceDue |-> total, status |-> status, paidDate |-> Absent]

InitPayments ==
    /\ pricingGroups = <<>>
    /\ priceLists = <<>>
    /\ priceListItems = <<>>
    /\ accounts = <<>>
    /\ commodities = <<[id |-> 1, isActive |-> TRUE]>>
    /\ inventoryAdjustments = <<>>
    /\ assignedNumbers = <<>>
    /\ running = Idle
    /\ purchaseOrders = <<>>
    /\ salesOrders = <<>>
    /\ loads = <<>>
    /\ brokeredOrders = <<>>
    /\ invoices = <<CreatedInvoice(1, 2, "draft"), CreatedInvoice(2, 3, "sent")>>
    /\ last = [op |-> "none"]

NextPayments ==
    \/ \E invoiceId \in 1..3, amount \in PaymentAmounts :
           /\ Has(invoices, invoiceId) =>
                  Len(GetById(invoices, invoiceId).payments) < MaxPayments
           /\ addPayment(invoiceId, amount, 1)
    \/ \E invoiceIds \in {<<1>>, <<2, 1>>, <<1, 1>>, <<3, 2>>} :
           /\ \A i \in 1..Len(invoices) : Len(invoices[i].payments) < MaxPayments
           /\ addBatchPayment(invoiceIds, 1)
    \/ \E paymentId \in 1..(2 * MaxPayments + 1) : voidPayment(paymentId)

SpecPayments == InitPayments /\ [][NextPayments]_vars

----------------------------------------------------------------------------
(* datesOverlap against the date filter of getActivePriceListsForDate: two  *)
(* price lists of one pricing group, each expiring after its effective date *)
(* or never, one call of either.                                            *)

datesOverlapCall(i, k) ==
    /\ last' = [op |-> "datesOverlap", first |-> i, second |-> k,
                result |-> datesOverlap(priceLists[i].effectiveDate,
                                        priceLists[i].expirationDate,
                                        priceLists[k].effectiveDate,
                                        priceLists[k].expirationDate)]
    /\ Unchanged

getActivePriceListsForDateCall(pricingGroupId, date) ==
    /\ last' = [op |-> "getActivePriceListsForDate", date |-> date,
                result |-> getActivePriceListsForDate(priceLists, pricingGroupId, date)]
    /\ Unchanged

InitOverlap ==
    /\ pricingGroups = <<[id |-> 1, direction |-> "buy", isDefault |-> FALSE,
                          isActive |-> TRUE]>>
    /\ \E e1, e2 \in Dates, x1, x2 \in OptDates, a1, a2 \in BOOLEAN :
           /\ x1 = Absent \/ e1 < x1
           /\ x2 = Absent \/ e2 < x2
           /\ priceLists = <<[id |-> 1, pricingGroupId |-> 1, effectiveDate |-> e1,
                              expirationDate |-> x1, isActive |-> a1],
                             [id |-> 2, pricingGroupId |-> 1, effectiveDate |-> e2,
                              expirationDate |-> x2, isActive |-> a2]>>
    /\ priceListItems = <<>>
    /\ accounts = <<>>
    /\ commodities = <<>>
    /\ inventoryAdjustments = <<>>
    /\ purchaseOrders = <<>>
    /\ salesOrders = <<>>
    /\ loads = <<>>
    /\ assignedNumbers = <<>>
    /\ running = [op |-> "none"]
    /\ brokeredOrders = <<>>
    /\ invoices = <<>>
    /\ last = [op |-> "none"]

NextOverlap ==
    \/ \E i, k \in {1, 2} : last.op = "none" /\ i # k /\ datesOverlapCall(i, k)
    \/ \E date \in Dates : last.op = "none" /\ getActivePriceListsForDateCall(1, date)

SpecOverlap == InitOverlap /\ [][NextOverlap]_vars

\* a date on which both price lists pass the filter of the resolver; a list
\* without expiration stays effective, so a shared date beyond the last date
\* of the model implies one within it
BothEffective(pl1, pl2) ==
    \E d \in Dates : IsEffective(pl1, d) /\ IsEffective(pl2, d)

\* C29: datesOverlap on the dates of two price lists is true exactly when
\* there is a date on which both lists pass the date filter of the resolver;
\* two lists of which one becomes effective on the expiration date of the
\* other are not reported as overlapping.
OverlapMatchesResolver ==
    last.op = "datesOverlap" =>
        (last.result <=> BothEffective(priceLists[last.first], priceLists[last.second]))

\* two lists that share an effective date are always reported as overlapping
OverlapCoversResolver ==
    last.op = "datesOverlap" =>
        (BothEffective(priceLists[last.first], priceLists[last.second]) => last.result)

----------------------------------------------------------------------------
(* The timeline against the availability projection, under SpecTimeline.    *)

\* no pending movement of the commodity and location is expected before
\* startDate
NoneBefore(commodityId, locationId, startDate, today) ==
    LET movements == getMovementsResult(commodityId, locationId, Absent, Absent, today)
    IN  \A k \in 1..Len(movements) : movements[k].expectedDate >= startDate

\* C30: when no pending movement of the commodity and location is expected
\* before startDate, the position of the last entry of
\* getPositionTimeline(commodityId, locationId, startDate, endDate) is
\* checkAvailability(commodityId, 0, locationId, endDate).currentPosition:
\* the current inventory plus all incoming minus all outgoing expected on or
\* before endDate.
TimelineMatchesAvailability ==
    /\ last.op = "getPositionTimeline"
    /\ last.startDate <= last.endDate
    /\ NoneBefore(last.commodityId, last.locationId, last.startDate, last.today)
    => /\ last.result # <<>>
       /\ last.result[Len(last.result)].position =
              checkAvailabilityResult(last.commodityId, 0, last.locationId,
                                      last.endDate, last.today).currentPosition

\* the same, for a program that runs in a zone without a daylight-saving
\* change between startDate and endDate
TimelineMatchesAvailabilityUTC ==
    last.op = "getPositionTimeline" /\ last.zone = UTC => TimelineMatchesAvailability

\* a timeline in such a zone that ends on a day with movements, after a day
\* with movements
TimelineMatchesAvailabilityWitness ==
    /\ last.op = "getPositionTimeline"
    /\ last.zone = UTC
    /\ last.startDate < last.endDate
    /\ NoneBefore(last.commodityId, last.locationId, last.startDate, last.today)
    /\ Len(last.result) > 1
    /\ last.result[1].movements # <<>>
    /\ last.result[Len(last.result)].movements # <<>>

====
